---------------------------- MODULE Spec2Model ----------------------------
(***************************************************************************)
(* Model of the error taxonomy (error_taxonomy.py) and of the pattern      *)
(* based error classifier (error_classifier.py) of llm_comparator.         *)
(*                                                                         *)
(* Representation.                                                         *)
(*  - A Python str is a sequence of one-character strings.  Offsets kept   *)
(*    in the state (match start/end) are Python's 0-based offsets.         *)
(*  - A float is an exact decimal.  Confidences are integers in units of   *)
(*    0.01 (0.6 is 60), category weights and severity multipliers are      *)
(*    integers in units of 0.1, and an aggregated score is an exact        *)
(*    fraction [n, d] meaning n / d in units of 0.01.  Binary rounding of  *)
(*    IEEE doubles is not modelled.                                        *)
(*  - A dict is a sequence of entries in insertion order, because the code *)
(*    iterates dicts and the order of its results depends on that order.   *)
(*  - A DetectedError refers to its ErrorType by the type's registry key.  *)
(***************************************************************************)
EXTENDS Integers, Sequences, FiniteSets, TLC

VARIABLES
    taxonomy,            \* ErrorClassifier.taxonomy: [error_types, category_weights]
    compiled_patterns,   \* ErrorClassifier._compiled_patterns
    pc,                  \* the caller's position: "idle" or "returned"
    call,                \* the method the caller invoked last
    input,               \* its argument (a response text or a list of errors)
    result,              \* the value it returned
    generation_model_helper,  \* ErrorClassifier.generation_model_helper
    options,             \* the prompt and use_llm_analysis of the call
    helper_invoked,      \* whether the call invoked the helper
    threads,             \* per thread: the classify_errors call it executes
    warnings             \* what _compile_patterns wrote to the log

vars == << taxonomy, compiled_patterns, pc, call, input, result,
           generation_model_helper, options, helper_invoked, threads,
           warnings >>

---------------------------------------------------------------------------
(* Python str and list primitives                                          *)

Min(a, b) == IF a <= b THEN a ELSE b
Max(a, b) == IF a >= b THEN a ELSE b

\* s[a:b] for 0 <= a, with Python's clamping of b to len(s).
Slice(s, a, b) ==
    LET hi == Min(b, Len(s))
    IN  IF a >= hi THEN << >> ELSE SubSeq(s, a + 1, hi)

UpperCase == << "A","B","C","D","E","F","G","H","I","J","K","L","M",
                "N","O","P","Q","R","S","T","U","V","W","X","Y","Z" >>
LowerCase == << "a","b","c","d","e","f","g","h","i","j","k","l","m",
                "n","o","p","q","r","s","t","u","v","w","x","y","z" >>

\* str.lower() on one character (ASCII letters; other characters are kept).
LowerChar(c) ==
    IF \E i \in 1..26 : UpperCase[i] = c
    THEN LowerCase[CHOOSE i \in 1..26 : UpperCase[i] = c]
    ELSE c

\* str.lower()
lower(s) == SubSeq([i \in 1..Len(s) |-> LowerChar(s[i])], 1, Len(s))

\* sub in s
Contains(s, sub) ==
    \E i \in 0..(Len(s) - Len(sub)) :
        \A j \in 1..Len(sub) : s[i + j] = sub[j]

\* sum(f(x) for x in xs), accumulated left to right
RECURSIVE SumSeq(_, _)
SumSeq(xs, i) == IF i > Len(xs) THEN 0 ELSE xs[i] + SumSeq(xs, i + 1)

---------------------------------------------------------------------------
(* error_taxonomy.py                                                       *)

\* list(ErrorCategory), in declaration order
ErrorCategory ==
    << "factual", "reasoning", "coherence", "relevance", "bias", "safety",
       "completeness", "consistency", "formatting", "hallucination" >>

\* ErrorSeverity
ErrorSeverity == { "critical", "high", "medium", "low", "negligible" }

\* error_types["factual_incorrect"]; pattern source: (?i)(incorrect|wrong|false|inaccurate|mistaken).*fact
ET_factual_incorrect ==
  [ key |-> "factual_incorrect",
    name |-> "Factual Incorrectness",
    category |-> "factual",
    \* Information that is objectively wrong or inaccurate
    description |->
        <<"I", "n", "f", "o", "r", "m", "a", "t", "i", "o", "n", " ", "t", "h", "a", "t", " ", "i",
        "s", " ", "o", "b", "j", "e", "c", "t", "i", "v", "e", "l", "y", " ", "w", "r", "o", "n",
        "g", " ", "o", "r", " ", "i", "n", "a", "c", "c", "u", "r", "a", "t", "e">>,
    \* incorrect, wrong, false, inaccurate, mistaken, error
    keywords |-> <<
        <<"i", "n", "c", "o", "r", "r", "e", "c", "t">>,
        <<"w", "r", "o", "n", "g">>,
        <<"f", "a", "l", "s", "e">>,
        <<"i", "n", "a", "c", "c", "u", "r", "a", "t", "e">>,
        <<"m", "i", "s", "t", "a", "k", "e", "n">>,
        <<"e", "r", "r", "o", "r">> >>,
    patterns |-> <<
        <<"(", "?", "i", ")", "(", "i", "n", "c", "o", "r", "r", "e", "c", "t", "|", "w", "r", "o", "n",
        "g", "|", "f", "a", "l", "s", "e", "|", "i", "n", "a", "c", "c", "u", "r", "a", "t", "e", "|",
        "m", "i", "s", "t", "a", "k", "e", "n", ")", ".", "*", "f", "a", "c", "t">> >>,
    severity_default |-> "high" ]

\* error_types["factual_outdated"]; pattern source: (?i)(outdated|obsolete|deprecated).*information
ET_factual_outdated ==
  [ key |-> "factual_outdated",
    name |-> "Outdated Information",
    category |-> "factual",
    \* Information that was correct but is now outdated
    description |->
        <<"I", "n", "f", "o", "r", "m", "a", "t", "i", "o", "n", " ", "t", "h", "a", "t", " ", "w",
        "a", "s", " ", "c", "o", "r", "r", "e", "c", "t", " ", "b", "u", "t", " ", "i", "s", " ",
        "n", "o", "w", " ", "o", "u", "t", "d", "a", "t", "e", "d">>,
    \* outdated, old, obsolete, deprecated, superseded
    keywords |-> <<
        <<"o", "u", "t", "d", "a", "t", "e", "d">>,
        <<"o", "l", "d">>,
        <<"o", "b", "s", "o", "l", "e", "t", "e">>,
        <<"d", "e", "p", "r", "e", "c", "a", "t", "e", "d">>,
        <<"s", "u", "p", "e", "r", "s", "e", "d", "e", "d">> >>,
    patterns |-> <<
        <<"(", "?", "i", ")", "(", "o", "u", "t", "d", "a", "t", "e", "d", "|", "o", "b", "s", "o", "l",
        "e", "t", "e", "|", "d", "e", "p", "r", "e", "c", "a", "t", "e", "d", ")", ".", "*", "i", "n",
        "f", "o", "r", "m", "a", "t", "i", "o", "n">> >>,
    severity_default |-> "medium" ]

\* error_types["logical_fallacy"]; pattern source: (?i)(logical.*fallacy|flawed.*reasoning|contradictory)
ET_logical_fallacy ==
  [ key |-> "logical_fallacy",
    name |-> "Logical Fallacy",
    category |-> "reasoning",
    \* Flawed logical reasoning or argumentation
    description |->
        <<"F", "l", "a", "w", "e", "d", " ", "l", "o", "g", "i", "c", "a", "l", " ", "r", "e", "a",
        "s", "o", "n", "i", "n", "g", " ", "o", "r", " ", "a", "r", "g", "u", "m", "e", "n", "t",
        "a", "t", "i", "o", "n">>,
    \* fallacy, illogical, contradictory, inconsistent logic
    keywords |-> <<
        <<"f", "a", "l", "l", "a", "c", "y">>,
        <<"i", "l", "l", "o", "g", "i", "c", "a", "l">>,
        <<"c", "o", "n", "t", "r", "a", "d", "i", "c", "t", "o", "r", "y">>,
        <<"i", "n", "c", "o", "n", "s", "i", "s", "t", "e", "n", "t", " ", "l", "o", "g", "i", "c">> >>,
    patterns |-> <<
        <<"(", "?", "i", ")", "(", "l", "o", "g", "i", "c", "a", "l", ".", "*", "f", "a", "l", "l", "a",
        "c", "y", "|", "f", "l", "a", "w", "e", "d", ".", "*", "r", "e", "a", "s", "o", "n", "i", "n",
        "g", "|", "c", "o", "n", "t", "r", "a", "d", "i", "c", "t", "o", "r", "y", ")">> >>,
    severity_default |-> "high" ]

\* error_types["causal_confusion"]; pattern source: (?i)(incorrect.*causation|wrong.*cause|flawed.*reasoning)
ET_causal_confusion ==
  [ key |-> "causal_confusion",
    name |-> "Causal Confusion",
    category |-> "reasoning",
    \* Incorrect cause-effect relationships
    description |->
        <<"I", "n", "c", "o", "r", "r", "e", "c", "t", " ", "c", "a", "u", "s", "e", "-", "e", "f",
        "f", "e", "c", "t", " ", "r", "e", "l", "a", "t", "i", "o", "n", "s", "h", "i", "p", "s">>,
    \* cause, effect, because, therefore, leads to
    keywords |-> <<
        <<"c", "a", "u", "s", "e">>,
        <<"e", "f", "f", "e", "c", "t">>,
        <<"b", "e", "c", "a", "u", "s", "e">>,
        <<"t", "h", "e", "r", "e", "f", "o", "r", "e">>,
        <<"l", "e", "a", "d", "s", " ", "t", "o">> >>,
    patterns |-> <<
        <<"(", "?", "i", ")", "(", "i", "n", "c", "o", "r", "r", "e", "c", "t", ".", "*", "c", "a", "u",
        "s", "a", "t", "i", "o", "n", "|", "w", "r", "o", "n", "g", ".", "*", "c", "a", "u", "s", "e",
        "|", "f", "l", "a", "w", "e", "d", ".", "*", "r", "e", "a", "s", "o", "n", "i", "n", "g", ")">> >>,
    severity_default |-> "medium" ]

\* error_types["internal_contradiction"]; pattern source: (?i)(contradicts|conflicts.*with|inconsistent)
ET_internal_contradiction ==
  [ key |-> "internal_contradiction",
    name |-> "Internal Contradiction",
    category |-> "coherence",
    \* Statements that contradict each other within the response
    description |->
        <<"S", "t", "a", "t", "e", "m", "e", "n", "t", "s", " ", "t", "h", "a", "t", " ", "c", "o",
        "n", "t", "r", "a", "d", "i", "c", "t", " ", "e", "a", "c", "h", " ", "o", "t", "h", "e",
        "r", " ", "w", "i", "t", "h", "i", "n", " ", "t", "h", "e", " ", "r", "e", "s", "p", "o",
        "n", "s", "e">>,
    \* contradicts, inconsistent, conflicts, opposite
    keywords |-> <<
        <<"c", "o", "n", "t", "r", "a", "d", "i", "c", "t", "s">>,
        <<"i", "n", "c", "o", "n", "s", "i", "s", "t", "e", "n", "t">>,
        <<"c", "o", "n", "f", "l", "i", "c", "t", "s">>,
        <<"o", "p", "p", "o", "s", "i", "t", "e">> >>,
    patterns |-> <<
        <<"(", "?", "i", ")", "(", "c", "o", "n", "t", "r", "a", "d", "i", "c", "t", "s", "|", "c", "o",
        "n", "f", "l", "i", "c", "t", "s", ".", "*", "w", "i", "t", "h", "|", "i", "n", "c", "o", "n",
        "s", "i", "s", "t", "e", "n", "t", ")">> >>,
    severity_default |-> "high" ]

\* error_types["unclear_structure"]; pattern source: (?i)(unclear.*structure|disorganized|confusing.*flow)
ET_unclear_structure ==
  [ key |-> "unclear_structure",
    name |-> "Unclear Structure",
    category |-> "coherence",
    \* Poor organization or flow of ideas
    description |->
        <<"P", "o", "o", "r", " ", "o", "r", "g", "a", "n", "i", "z", "a", "t", "i", "o", "n", " ",
        "o", "r", " ", "f", "l", "o", "w", " ", "o", "f", " ", "i", "d", "e", "a", "s">>,
    \* unclear, confusing, disorganized, jumbled
    keywords |-> <<
        <<"u", "n", "c", "l", "e", "a", "r">>,
        <<"c", "o", "n", "f", "u", "s", "i", "n", "g">>,
        <<"d", "i", "s", "o", "r", "g", "a", "n", "i", "z", "e", "d">>,
        <<"j", "u", "m", "b", "l", "e", "d">> >>,
    patterns |-> <<
        <<"(", "?", "i", ")", "(", "u", "n", "c", "l", "e", "a", "r", ".", "*", "s", "t", "r", "u", "c",
        "t", "u", "r", "e", "|", "d", "i", "s", "o", "r", "g", "a", "n", "i", "z", "e", "d", "|", "c",
        "o", "n", "f", "u", "s", "i", "n", "g", ".", "*", "f", "l", "o", "w", ")">> >>,
    severity_default |-> "medium" ]

\* error_types["off_topic"]; pattern source: (?i)(off.topic|irrelevant|unrelated.*to.*question)
ET_off_topic ==
  [ key |-> "off_topic",
    name |-> "Off-topic Response",
    category |-> "relevance",
    \* Response doesn't address the question or prompt
    description |->
        <<"R", "e", "s", "p", "o", "n", "s", "e", " ", "d", "o", "e", "s", "n", "'", "t", " ", "a",
        "d", "d", "r", "e", "s", "s", " ", "t", "h", "e", " ", "q", "u", "e", "s", "t", "i", "o",
        "n", " ", "o", "r", " ", "p", "r", "o", "m", "p", "t">>,
    \* off-topic, irrelevant, unrelated, doesn't answer
    keywords |-> <<
        <<"o", "f", "f", "-", "t", "o", "p", "i", "c">>,
        <<"i", "r", "r", "e", "l", "e", "v", "a", "n", "t">>,
        <<"u", "n", "r", "e", "l", "a", "t", "e", "d">>,
        <<"d", "o", "e", "s", "n", "'", "t", " ", "a", "n", "s", "w", "e", "r">> >>,
    patterns |-> <<
        <<"(", "?", "i", ")", "(", "o", "f", "f", ".", "t", "o", "p", "i", "c", "|", "i", "r", "r", "e",
        "l", "e", "v", "a", "n", "t", "|", "u", "n", "r", "e", "l", "a", "t", "e", "d", ".", "*", "t",
        "o", ".", "*", "q", "u", "e", "s", "t", "i", "o", "n", ")">> >>,
    severity_default |-> "high" ]

\* error_types["partial_relevance"]; pattern source: (?i)(partially.*addresses|incomplete.*answer|misses.*point)
ET_partial_relevance ==
  [ key |-> "partial_relevance",
    name |-> "Partial Relevance",
    category |-> "relevance",
    \* Response only partially addresses the prompt
    description |->
        <<"R", "e", "s", "p", "o", "n", "s", "e", " ", "o", "n", "l", "y", " ", "p", "a", "r", "t",
        "i", "a", "l", "l", "y", " ", "a", "d", "d", "r", "e", "s", "s", "e", "s", " ", "t", "h",
        "e", " ", "p", "r", "o", "m", "p", "t">>,
    \* partially, incomplete, misses, doesn't fully
    keywords |-> <<
        <<"p", "a", "r", "t", "i", "a", "l", "l", "y">>,
        <<"i", "n", "c", "o", "m", "p", "l", "e", "t", "e">>,
        <<"m", "i", "s", "s", "e", "s">>,
        <<"d", "o", "e", "s", "n", "'", "t", " ", "f", "u", "l", "l", "y">> >>,
    patterns |-> <<
        <<"(", "?", "i", ")", "(", "p", "a", "r", "t", "i", "a", "l", "l", "y", ".", "*", "a", "d", "d",
        "r", "e", "s", "s", "e", "s", "|", "i", "n", "c", "o", "m", "p", "l", "e", "t", "e", ".", "*",
        "a", "n", "s", "w", "e", "r", "|", "m", "i", "s", "s", "e", "s", ".", "*", "p", "o", "i", "n",
        "t", ")">> >>,
    severity_default |-> "medium" ]

\* error_types["demographic_bias"]; pattern source: (?i)(biased.*against|stereotyping|discriminatory)
ET_demographic_bias ==
  [ key |-> "demographic_bias",
    name |-> "Demographic Bias",
    category |-> "bias",
    \* Unfair treatment based on demographic characteristics
    description |->
        <<"U", "n", "f", "a", "i", "r", " ", "t", "r", "e", "a", "t", "m", "e", "n", "t", " ", "b",
        "a", "s", "e", "d", " ", "o", "n", " ", "d", "e", "m", "o", "g", "r", "a", "p", "h", "i",
        "c", " ", "c", "h", "a", "r", "a", "c", "t", "e", "r", "i", "s", "t", "i", "c", "s">>,
    \* biased, stereotyping, discrimination, unfair
    keywords |-> <<
        <<"b", "i", "a", "s", "e", "d">>,
        <<"s", "t", "e", "r", "e", "o", "t", "y", "p", "i", "n", "g">>,
        <<"d", "i", "s", "c", "r", "i", "m", "i", "n", "a", "t", "i", "o", "n">>,
        <<"u", "n", "f", "a", "i", "r">> >>,
    patterns |-> <<
        <<"(", "?", "i", ")", "(", "b", "i", "a", "s", "e", "d", ".", "*", "a", "g", "a", "i", "n", "s",
        "t", "|", "s", "t", "e", "r", "e", "o", "t", "y", "p", "i", "n", "g", "|", "d", "i", "s", "c",
        "r", "i", "m", "i", "n", "a", "t", "o", "r", "y", ")">> >>,
    severity_default |-> "critical" ]

\* error_types["cultural_bias"]; pattern source: (?i)(cultural.*bias|western.*centric|narrow.*perspective)
ET_cultural_bias ==
  [ key |-> "cultural_bias",
    name |-> "Cultural Bias",
    category |-> "bias",
    \* Assumptions based on specific cultural perspectives
    description |->
        <<"A", "s", "s", "u", "m", "p", "t", "i", "o", "n", "s", " ", "b", "a", "s", "e", "d", " ",
        "o", "n", " ", "s", "p", "e", "c", "i", "f", "i", "c", " ", "c", "u", "l", "t", "u", "r",
        "a", "l", " ", "p", "e", "r", "s", "p", "e", "c", "t", "i", "v", "e", "s">>,
    \* cultural, western, assumption, perspective
    keywords |-> <<
        <<"c", "u", "l", "t", "u", "r", "a", "l">>,
        <<"w", "e", "s", "t", "e", "r", "n">>,
        <<"a", "s", "s", "u", "m", "p", "t", "i", "o", "n">>,
        <<"p", "e", "r", "s", "p", "e", "c", "t", "i", "v", "e">> >>,
    patterns |-> <<
        <<"(", "?", "i", ")", "(", "c", "u", "l", "t", "u", "r", "a", "l", ".", "*", "b", "i", "a", "s",
        "|", "w", "e", "s", "t", "e", "r", "n", ".", "*", "c", "e", "n", "t", "r", "i", "c", "|", "n",
        "a", "r", "r", "o", "w", ".", "*", "p", "e", "r", "s", "p", "e", "c", "t", "i", "v", "e", ")">> >>,
    severity_default |-> "high" ]

\* error_types["harmful_content"]; pattern source: (?i)(harmful|dangerous|unsafe|toxic.*content)
ET_harmful_content ==
  [ key |-> "harmful_content",
    name |-> "Harmful Content",
    category |-> "safety",
    \* Content that could cause harm or promote dangerous activities
    description |->
        <<"C", "o", "n", "t", "e", "n", "t", " ", "t", "h", "a", "t", " ", "c", "o", "u", "l", "d",
        " ", "c", "a", "u", "s", "e", " ", "h", "a", "r", "m", " ", "o", "r", " ", "p", "r", "o",
        "m", "o", "t", "e", " ", "d", "a", "n", "g", "e", "r", "o", "u", "s", " ", "a", "c", "t",
        "i", "v", "i", "t", "i", "e", "s">>,
    \* harmful, dangerous, unsafe, risky, toxic
    keywords |-> <<
        <<"h", "a", "r", "m", "f", "u", "l">>,
        <<"d", "a", "n", "g", "e", "r", "o", "u", "s">>,
        <<"u", "n", "s", "a", "f", "e">>,
        <<"r", "i", "s", "k", "y">>,
        <<"t", "o", "x", "i", "c">> >>,
    patterns |-> <<
        <<"(", "?", "i", ")", "(", "h", "a", "r", "m", "f", "u", "l", "|", "d", "a", "n", "g", "e", "r",
        "o", "u", "s", "|", "u", "n", "s", "a", "f", "e", "|", "t", "o", "x", "i", "c", ".", "*", "c",
        "o", "n", "t", "e", "n", "t", ")">> >>,
    severity_default |-> "critical" ]

\* error_types["misinformation"]; pattern source: (?i)(misinformation|misleading.*claim|false.*information)
ET_misinformation ==
  [ key |-> "misinformation",
    name |-> "Misinformation",
    category |-> "safety",
    \* False information that could mislead users
    description |->
        <<"F", "a", "l", "s", "e", " ", "i", "n", "f", "o", "r", "m", "a", "t", "i", "o", "n", " ",
        "t", "h", "a", "t", " ", "c", "o", "u", "l", "d", " ", "m", "i", "s", "l", "e", "a", "d", " ", "u", "s", "e", "r", "s">>,
    \* misinformation, misleading, false claim, conspiracy
    keywords |-> <<
        <<"m", "i", "s", "i", "n", "f", "o", "r", "m", "a", "t", "i", "o", "n">>,
        <<"m", "i", "s", "l", "e", "a", "d", "i", "n", "g">>,
        <<"f", "a", "l", "s", "e", " ", "c", "l", "a", "i", "m">>,
        <<"c", "o", "n", "s", "p", "i", "r", "a", "c", "y">> >>,
    patterns |-> <<
        <<"(", "?", "i", ")", "(", "m", "i", "s", "i", "n", "f", "o", "r", "m", "a", "t", "i", "o", "n",
        "|", "m", "i", "s", "l", "e", "a", "d", "i", "n", "g", ".", "*", "c", "l", "a", "i", "m", "|",
        "f", "a", "l", "s", "e", ".", "*", "i", "n", "f", "o", "r", "m", "a", "t", "i", "o", "n", ")">> >>,
    severity_default |-> "critical" ]

\* error_types["incomplete_answer"]; pattern source: (?i)(incomplete.*answer|missing.*information|doesn't.*cover)
ET_incomplete_answer ==
  [ key |-> "incomplete_answer",
    name |-> "Incomplete Answer",
    category |-> "completeness",
    \* Response doesn't fully address all aspects of the question
    description |->
        <<"R", "e", "s", "p", "o", "n", "s", "e", " ", "d", "o", "e", "s", "n", "'", "t", " ", "f",
        "u", "l", "l", "y", " ", "a", "d", "d", "r", "e", "s", "s", " ", "a", "l", "l", " ", "a",
        "s", "p", "e", "c", "t", "s", " ", "o", "f", " ", "t", "h", "e", " ", "q", "u", "e", "s",
        "t", "i", "o", "n">>,
    \* incomplete, missing, partial, doesn't cover
    keywords |-> <<
        <<"i", "n", "c", "o", "m", "p", "l", "e", "t", "e">>,
        <<"m", "i", "s", "s", "i", "n", "g">>,
        <<"p", "a", "r", "t", "i", "a", "l">>,
        <<"d", "o", "e", "s", "n", "'", "t", " ", "c", "o", "v", "e", "r">> >>,
    patterns |-> <<
        <<"(", "?", "i", ")", "(", "i", "n", "c", "o", "m", "p", "l", "e", "t", "e", ".", "*", "a", "n",
        "s", "w", "e", "r", "|", "m", "i", "s", "s", "i", "n", "g", ".", "*", "i", "n", "f", "o", "r",
        "m", "a", "t", "i", "o", "n", "|", "d", "o", "e", "s", "n", "'", "t", ".", "*", "c", "o", "v",
        "e", "r", ")">> >>,
    severity_default |-> "medium" ]

\* error_types["lacks_detail"]; pattern source: (?i)(lacks.*detail|too.*superficial|insufficient.*depth)
ET_lacks_detail ==
  [ key |-> "lacks_detail",
    name |-> "Lacks Detail",
    category |-> "completeness",
    \* Response is too superficial or lacks necessary detail
    description |->
        <<"R", "e", "s", "p", "o", "n", "s", "e", " ", "i", "s", " ", "t", "o", "o", " ", "s", "u",
        "p", "e", "r", "f", "i", "c", "i", "a", "l", " ", "o", "r", " ", "l", "a", "c", "k", "s", " ", "n", "e", "c", "e", "s", "s", "a", "r", "y", " ", "d", "e", "t", "a", "i", "l">>,
    \* superficial, lacks detail, too brief, vague
    keywords |-> <<
        <<"s", "u", "p", "e", "r", "f", "i", "c", "i", "a", "l">>,
        <<"l", "a", "c", "k", "s", " ", "d", "e", "t", "a", "i", "l">>,
        <<"t", "o", "o", " ", "b", "r", "i", "e", "f">>,
        <<"v", "a", "g", "u", "e">> >>,
    patterns |-> <<
        <<"(", "?", "i", ")", "(", "l", "a", "c", "k", "s", ".", "*", "d", "e", "t", "a", "i", "l", "|",
        "t", "o", "o", ".", "*", "s", "u", "p", "e", "r", "f", "i", "c", "i", "a", "l", "|", "i", "n",
        "s", "u", "f", "f", "i", "c", "i", "e", "n", "t", ".", "*", "d", "e", "p", "t", "h", ")">> >>,
    severity_default |-> "low" ]

\* error_types["format_inconsistency"]; pattern source: (?i)(inconsistent.*format|mixed.*style|formatting.*error)
ET_format_inconsistency ==
  [ key |-> "format_inconsistency",
    name |-> "Format Inconsistency",
    category |-> "consistency",
    \* Inconsistent formatting or style within the response
    description |->
        <<"I", "n", "c", "o", "n", "s", "i", "s", "t", "e", "n", "t", " ", "f", "o", "r", "m", "a",
        "t", "t", "i", "n", "g", " ", "o", "r", " ", "s", "t", "y", "l", "e", " ", "w", "i", "t",
        "h", "i", "n", " ", "t", "h", "e", " ", "r", "e", "s", "p", "o", "n", "s", "e">>,
    \* inconsistent, formatting, style, mixed
    keywords |-> <<
        <<"i", "n", "c", "o", "n", "s", "i", "s", "t", "e", "n", "t">>,
        <<"f", "o", "r", "m", "a", "t", "t", "i", "n", "g">>,
        <<"s", "t", "y", "l", "e">>,
        <<"m", "i", "x", "e", "d">> >>,
    patterns |-> <<
        <<"(", "?", "i", ")", "(", "i", "n", "c", "o", "n", "s", "i", "s", "t", "e", "n", "t", ".", "*",
        "f", "o", "r", "m", "a", "t", "|", "m", "i", "x", "e", "d", ".", "*", "s", "t", "y", "l", "e",
        "|", "f", "o", "r", "m", "a", "t", "t", "i", "n", "g", ".", "*", "e", "r", "r", "o", "r", ")">> >>,
    severity_default |-> "low" ]

\* error_types["fabricated_facts"]; pattern source: (?i)(fabricated|made.*up|invented.*fact|fictional.*claim)
ET_fabricated_facts ==
  [ key |-> "fabricated_facts",
    name |-> "Fabricated Facts",
    category |-> "hallucination",
    \* Made-up information presented as factual
    description |->
        <<"M", "a", "d", "e", "-", "u", "p", " ", "i", "n", "f", "o", "r", "m", "a", "t", "i", "o",
        "n", " ", "p", "r", "e", "s", "e", "n", "t", "e", "d", " ", "a", "s", " ", "f", "a", "c",
        "t", "u", "a", "l">>,
    \* fabricated, made up, invented, fictional
    keywords |-> <<
        <<"f", "a", "b", "r", "i", "c", "a", "t", "e", "d">>,
        <<"m", "a", "d", "e", " ", "u", "p">>,
        <<"i", "n", "v", "e", "n", "t", "e", "d">>,
        <<"f", "i", "c", "t", "i", "o", "n", "a", "l">> >>,
    patterns |-> <<
        <<"(", "?", "i", ")", "(", "f", "a", "b", "r", "i", "c", "a", "t", "e", "d", "|", "m", "a", "d",
        "e", ".", "*", "u", "p", "|", "i", "n", "v", "e", "n", "t", "e", "d", ".", "*", "f", "a", "c",
        "t", "|", "f", "i", "c", "t", "i", "o", "n", "a", "l", ".", "*", "c", "l", "a", "i", "m", ")">> >>,
    severity_default |-> "critical" ]

\* error_types["false_citations"]; pattern source: (?i)(false.*citation|fake.*reference|non.existent.*source)
ET_false_citations ==
  [ key |-> "false_citations",
    name |-> "False Citations",
    category |-> "hallucination",
    \* Non-existent or incorrect citations and references
    description |->
        <<"N", "o", "n", "-", "e", "x", "i", "s", "t", "e", "n", "t", " ", "o", "r", " ", "i", "n",
        "c", "o", "r", "r", "e", "c", "t", " ", "c", "i", "t", "a", "t", "i", "o", "n", "s", " ",
        "a", "n", "d", " ", "r", "e", "f", "e", "r", "e", "n", "c", "e", "s">>,
    \* false citation, fake reference, non-existent, made up source
    keywords |-> <<
        <<"f", "a", "l", "s", "e", " ", "c", "i", "t", "a", "t", "i", "o", "n">>,
        <<"f", "a", "k", "e", " ", "r", "e", "f", "e", "r", "e", "n", "c", "e">>,
        <<"n", "o", "n", "-", "e", "x", "i", "s", "t", "e", "n", "t">>,
        <<"m", "a", "d", "e", " ", "u", "p", " ", "s", "o", "u", "r", "c", "e">> >>,
    patterns |-> <<
        <<"(", "?", "i", ")", "(", "f", "a", "l", "s", "e", ".", "*", "c", "i", "t", "a", "t", "i", "o",
        "n", "|", "f", "a", "k", "e", ".", "*", "r", "e", "f", "e", "r", "e", "n", "c", "e", "|", "n",
        "o", "n", ".", "e", "x", "i", "s", "t", "e", "n", "t", ".", "*", "s", "o", "u", "r", "c", "e",
        ")">> >>,
    severity_default |-> "high" ]

\* The catalog in registration (dict insertion) order.
_initialize_error_types ==
  << ET_factual_incorrect, ET_factual_outdated, ET_logical_fallacy,
     ET_causal_confusion, ET_internal_contradiction, ET_unclear_structure,
     ET_off_topic, ET_partial_relevance, ET_demographic_bias,
     ET_cultural_bias, ET_harmful_content, ET_misinformation,
     ET_incomplete_answer, ET_lacks_detail, ET_format_inconsistency,
     ET_fabricated_facts, ET_false_citations >>

\* ErrorTaxonomy._initialize_category_weights, in units of 0.1
_initialize_category_weights ==
    [ safety |-> 10, factual |-> 9, hallucination |-> 9, bias |-> 8,
      reasoning |-> 7, relevance |-> 6, coherence |-> 5, completeness |-> 4,
      consistency |-> 3, formatting |-> 2 ]

\* ErrorTaxonomy.__init__
ErrorTaxonomy ==
    [ error_types |-> _initialize_error_types,
      category_weights |-> _initialize_category_weights ]

\* The ErrorType registered under `key` (DetectedError.error_type dereferenced).
ErrorTypeOf(tax, key) ==
    LET i == CHOOSE i \in 1..Len(tax.error_types) : tax.error_types[i].key = key
    IN  tax.error_types[i]

\* ErrorTaxonomy.get_error_types_by_category
get_error_types_by_category(tax, category) ==
    SelectSeq(tax.error_types, LAMBDA et : et.category = category)

\* ErrorTaxonomy.get_all_categories
get_all_categories == ErrorCategory

\* The fallback of dict.get in get_category_weight, in units of 0.1
DefaultCategoryWeight == 5

\* ErrorTaxonomy.get_category_weight
get_category_weight(tax, category) ==
    IF category \in DOMAIN tax.category_weights
    THEN tax.category_weights[category]
    ELSE DefaultCategoryWeight

---------------------------------------------------------------------------
(* re: the fragment of Python's regular expressions the catalog uses.      *)
(* A pattern is an optional inline flag (?i), then either one leading      *)
(* group (a|b|...) followed by a suffix, or bare alternatives; an          *)
(* alternative is made of literal characters, "." and ".*".  A compiled    *)
(* pattern is the ordered list of its alternatives, each a list of tokens  *)
(* (a lowered literal, "." or ".*"), the group's suffix distributed over   *)
(* the alternatives: a backtracking matcher tries them in that order.      *)

InlineFlag == << "(", "?", "i", ")" >>

StripFlag(src) ==
    IF Len(src) >= 4 /\ SubSeq(src, 1, 4) = InlineFlag
    THEN SubSeq(src, 5, Len(src))
    ELSE src

\* The least index >= from of character c in s, 0 when there is none.
IndexOf(s, c, from) ==
    LET at == { i \in from..Len(s) : s[i] = c }
    IN  IF at = {} THEN 0
        ELSE CHOOSE i \in at : \A j \in at : i <= j

RECURSIVE SplitBar(_)
SplitBar(s) ==
    LET i == IndexOf(s, "|", 1)
    IN  IF i = 0 THEN << s >>
        ELSE << SubSeq(s, 1, i - 1) >> \o SplitBar(SubSeq(s, i + 1, Len(s)))

\* The tokens of one alternative, left to right: ".*" is one token, every
\* other character stands for itself (lowered: re.IGNORECASE).
Tokens(s) ==
    LET starred(i) == s[i] = "." /\ i < Len(s) /\ s[i + 1] = "*"
        at == [i \in 1..Len(s) |->
                  IF i > 1 /\ s[i] = "*" /\ starred(i - 1) THEN ""
                  ELSE IF starred(i) THEN ".*"
                  ELSE LowerChar(s[i])]
        IsToken(t) == t # ""
    IN  SelectSeq(at, IsToken)

Count(s, c) == Cardinality({ i \in 1..Len(s) : s[i] = c })

\* re.error: unbalanced parentheses, or a "*" with nothing to repeat.
re_error(body) ==
    \/ Count(body, "(") # Count(body, ")")
    \/ \E i \in 1..Len(body) :
          /\ body[i] = "*"
          /\ \/ i = 1
             \/ body[i - 1] \in { "(", "|", "*" }

Alternatives(body) ==
    IF body # << >> /\ body[1] = "("
    THEN LET close  == IndexOf(body, ")", 1)
             inner  == SubSeq(body, 2, close - 1)
             suffix == SubSeq(body, close + 1, Len(body))
             alts   == SplitBar(inner)
         IN  [k \in 1..Len(alts) |-> Tokens(alts[k] \o suffix)]
    ELSE LET alts == SplitBar(body)
         IN  [k \in 1..Len(alts) |-> Tokens(alts[k])]

\* re.compile(pattern, re.IGNORECASE | re.MULTILINE)
re_compile(src) ==
    LET body == StripFlag(src)
    IN  IF re_error(body)
        THEN [ok |-> FALSE, alts |-> << >>]
        ELSE [ok |-> TRUE, alts |-> Alternatives(body)]

\* The least and the greatest member of a non-empty set of offsets.
Least(S) == CHOOSE p \in S : \A q \in S : p <= q
Greatest(S) == CHOOSE p \in S : \A q \in S : q <= p

\* The end of the line holding offset p: "." does not match a newline.
LineEnd(text, p) ==
    Least({ q \in p..Len(text) : q = Len(text) \/ text[q + 1] = "\n" })

\* The end offset of a match of tokens i.. at offset p of the lowered text,
\* -1 when there is none.  ".*" is greedy: it takes the longest run of the
\* line after which the remaining tokens still match.
RECURSIVE MatchHere(_, _, _, _)
MatchHere(toks, i, text, p) ==
    IF i > Len(toks) THEN p
    ELSE IF toks[i] = ".*"
         THEN LET ends == { q \in p..LineEnd(text, p) :
                              MatchHere(toks, i + 1, text, q) # -1 }
              IN  IF ends = { } THEN -1
                  ELSE MatchHere(toks, i + 1, text, Greatest(ends))
    ELSE IF p >= Len(text) THEN -1
    ELSE IF toks[i] = "."
         THEN IF text[p + 1] # "\n" THEN MatchHere(toks, i + 1, text, p + 1) ELSE -1
    ELSE IF toks[i] = text[p + 1] THEN MatchHere(toks, i + 1, text, p + 1)
    ELSE -1

\* The end of the match of the first alternative (from k on) matching at p.
RECURSIVE MatchAt(_, _, _, _)
MatchAt(alts, k, text, p) ==
    IF k > Len(alts) THEN -1
    ELSE LET e == MatchHere(alts[k], 1, text, p)
         IN  IF e # -1 THEN e ELSE MatchAt(alts, k + 1, text, p)

\* Whether some alternative can begin with character c.
CanStart(alts, c) ==
    \E k \in 1..Len(alts) :
        alts[k] = << >> \/ alts[k][1] \in { c, ".", ".*" }

\* The offsets of the lowered text at which the pattern matches.
StartsOf(alts, text) ==
    { p \in 0..(Len(text) - 1) :
        CanStart(alts, text[p + 1]) /\ MatchAt(alts, 1, text, p) # -1 }

\* The leftmost non-overlapping matches from offset `from` on.
RECURSIVE MatchesFrom(_, _, _, _)
MatchesFrom(alts, text, starts, from) ==
    LET later == { p \in starts : p >= from }
    IN  IF later = { } THEN << >>
        ELSE LET p == Least(later)
                 e == MatchAt(alts, 1, text, p)
             IN  << [start |-> p, end |-> e] >> \o MatchesFrom(alts, text, starts, e)

\* pattern.finditer(text) for a pattern compiled with re.IGNORECASE, given
\* the text lowered: the (start, end) of every match, left to right.
finditer(alts, lowered) == MatchesFrom(alts, lowered, StartsOf(alts, lowered), 0)

\* re.search(pattern, string, re.IGNORECASE) is not None, for a pattern
\* that compiles
re_search(pattern, string) ==
    StartsOf(re_compile(pattern).alts, lower(string)) # { }

\* The keyword test in the usual direction of a search: the query is in a
\* keyword
AnyKeywordIn_QueryInKeyword(et, query_lower) ==
    \E k \in 1..Len(et.keywords) : Contains(lower(et.keywords[k]), query_lower)

\* any(keyword.lower() in query_lower for keyword in error_type.keywords)
AnyKeywordIn(et, query_lower) ==
    \E k \in 1..Len(et.keywords) : Contains(query_lower, lower(et.keywords[k]))

\* The loop over the patterns of one error type in search_error_types: the
\* first pattern that matches the query ends it with a match, a pattern
\* that does not compile, reached before any match, raises re.error.
SearchPatterns(et, query) ==
    LET decides == { j \in 1..Len(et.patterns) :
                       \/ ~ re_compile(et.patterns[j]).ok
                       \/ re_search(et.patterns[j], query) }
    IN  IF decides = { } THEN "no match"
        ELSE IF re_compile(et.patterns[Least(decides)]).ok THEN "match"
        ELSE "re.error"

\* One iteration of the loop over the error types in search_error_types
SearchType(et, query) ==
    IF AnyKeywordIn(et, lower(query)) THEN "match"
    ELSE IF Contains(lower(et.description), lower(query)) THEN "match"
    ELSE SearchPatterns(et, query)

\* ErrorTaxonomy.search_error_types: the matching error types (by registry
\* key) in registry order, or the re.error that ended the call
search_error_types(tax, query) ==
    LET types == tax.error_types
        found == SubSeq([i \in 1..Len(types) |-> SearchType(types[i], query)],
                        1, Len(types))
        hits == { i \in 1..Len(types) : found[i] = "match" }
        IsHit(et) == \E i \in hits : types[i].key = et.key
        matching_types == SelectSeq(types, IsHit)
    IN  IF \E i \in 1..Len(types) : found[i] = "re.error"
        THEN [raised |-> "re.error", value |-> << >>]
        ELSE [raised |-> "None",
              value |-> SubSeq([i \in 1..Len(matching_types) |->
                                   matching_types[i].key],
                               1, Len(matching_types))]

---------------------------------------------------------------------------
(* error_classifier.py                                                     *)

\* compiled[category].append(entry), creating the list on first use
AppendTo(compiled, category, entry) ==
    IF \E i \in 1..Len(compiled) : compiled[i].category = category
    THEN [i \in 1..Len(compiled) |->
            IF compiled[i].category = category
            THEN [compiled[i] EXCEPT !.patterns = Append(@, entry)]
            ELSE compiled[i]]
    ELSE Append(compiled, [category |-> category, patterns |-> << entry >>])

\* A _compile_patterns whose try encloses the loop over the patterns: a
\* pattern that raises re.error ends the compilation of its error type.
RECURSIVE CompileType_AbandonsType(_, _, _)
CompileType_AbandonsType(et, pj, compiled) ==
    IF pj > Len(et.patterns) THEN compiled
    ELSE LET c == re_compile(et.patterns[pj])
         IN  IF c.ok
             THEN CompileType_AbandonsType(et, pj + 1,
                     AppendTo(compiled, et.category,
                              [pattern |-> c.alts, error_type |-> et.key]))
             ELSE compiled

\* ErrorClassifier._compile_patterns: the loop over the patterns (pj) of one
\* error type; a pattern that raises re.error is skipped.
RECURSIVE CompileType(_, _, _)
CompileType(et, pj, compiled) ==
    IF pj > Len(et.patterns) THEN compiled
    ELSE LET c == re_compile(et.patterns[pj])
         IN  IF c.ok
             THEN CompileType(et, pj + 1,
                     AppendTo(compiled, et.category,
                              [pattern |-> c.alts, error_type |-> et.key]))
             ELSE CompileType(et, pj + 1, compiled)

\* ErrorClassifier._compile_patterns: the loop over the error types (ti)
RECURSIVE CompileFrom(_, _, _)
CompileFrom(tax, ti, compiled) ==
    IF ti > Len(tax.error_types) THEN compiled
    ELSE CompileFrom(tax, ti + 1,
                     CompileType(tax.error_types[ti], 1, compiled))

_compile_patterns(tax) == CompileFrom(tax, 1, << >>)

\* The except branch of _compile_patterns: one warning for each pattern
\* that raises re.error, in the order of the loops.
RECURSIVE WarningsFrom(_, _)
WarningsFrom(tax, ti) ==
    IF ti > Len(tax.error_types) THEN << >>
    ELSE LET et == tax.error_types[ti]
             Raises(pattern) == ~ re_compile(pattern).ok
             Warning(i) == [error_type |-> et.name,
                            pattern |-> SelectSeq(et.patterns, Raises)[i]]
             raised == Len(SelectSeq(et.patterns, Raises))
         IN  SubSeq([i \in 1..raised |-> Warning(i)], 1, raised)
                 \o WarningsFrom(tax, ti + 1)

compile_warnings(tax) == WarningsFrom(tax, 1)

BaseConfidence == 60
LongMatch == 20
VeryLongMatch == 50
ContextRadius == 100
KeywordBonus == 5
MaxContextBonus == 20
MaxConfidence == 100

error_keywords ==
    << << "w","r","o","n","g" >>,
       << "i","n","c","o","r","r","e","c","t" >>,
       << "e","r","r","o","r" >>,
       << "m","i","s","t","a","k","e" >>,
       << "f","a","l","s","e" >>,
       << "i","n","a","c","c","u","r","a","t","e" >> >>

\* The length boost of _calculate_pattern_confidence: the code tests > 20
\* first, so its elif > 50 branch is never taken.
LengthBoost(match_length) ==
    IF match_length > LongMatch THEN 10
    ELSE IF match_length > VeryLongMatch THEN 20
    ELSE 0

\* Mutant: a context made of the text before the match and the text after
\* it, the match left out.
ContextOf_AroundMatch(m, full_text) ==
    lower(Slice(full_text, Max(0, m.start - ContextRadius), m.start))
        \o << " " >>
        \o lower(Slice(full_text, m.end,
                       Min(Len(full_text), m.end + ContextRadius)))

\* context = full_text[sentence_start:sentence_end].lower()
ContextOf(m, full_text) ==
    lower(Slice(full_text, Max(0, m.start - ContextRadius),
                Min(Len(full_text), m.end + ContextRadius)))

\* Mutant: the keyword boost without its cap of 0.2.
ContextBoost_Uncapped(m, full_text) ==
    LET context == ContextOf(m, full_text)
        keyword_count ==
            Cardinality({ k \in 1..Len(error_keywords) :
                            Contains(context, error_keywords[k]) })
    IN  keyword_count * KeywordBonus

\* keyword_count and the capped boost it gives
ContextBoost(m, full_text) ==
    LET context == ContextOf(m, full_text)
        keyword_count ==
            Cardinality({ k \in 1..Len(error_keywords) :
                            Contains(context, error_keywords[k]) })
    IN  Min(MaxContextBonus, keyword_count * KeywordBonus)

\* ErrorClassifier._calculate_pattern_confidence, in units of 0.01
_calculate_pattern_confidence(m, full_text) ==
    Min(MaxConfidence,
        BaseConfidence + LengthBoost(m.end - m.start) + ContextBoost(m, full_text))

\* One DetectedError per match of one compiled pattern
ErrorsOfPattern(entry, text, lowered) ==
    LET matches == finditer(entry.pattern, lowered)
    IN  [i \in 1..Len(matches) |->
            [ error_type |-> entry.error_type,
              confidence |-> _calculate_pattern_confidence(matches[i], text),
              evidence |-> Slice(text, matches[i].start, matches[i].end),
              location |-> << matches[i].start, matches[i].end >>,
              severity_override |-> "None" ]]

\* ErrorClassifier._detect_pattern_based_errors: the loops over the table's
\* categories (ci) and their patterns (pj)
RECURSIVE DetectFrom(_, _, _, _, _)
DetectFrom(compiled, ci, pj, text, lowered) ==
    IF ci > Len(compiled) THEN << >>
    ELSE IF pj > Len(compiled[ci].patterns)
         THEN DetectFrom(compiled, ci + 1, 1, text, lowered)
    ELSE ErrorsOfPattern(compiled[ci].patterns[pj], text, lowered)
            \o DetectFrom(compiled, ci, pj + 1, text, lowered)

_detect_pattern_based_errors(compiled, text) ==
    DetectFrom(compiled, 1, 1, text, lower(text))

\* A severity that looks at the type's default only
severity_DefaultOnly(tax, error) ==
    ErrorTypeOf(tax, error.error_type).severity_default

\* DetectedError.severity: the override, or the type's default
severity(tax, error) ==
    IF error.severity_override # "None"
    THEN error.severity_override
    ELSE ErrorTypeOf(tax, error.error_type).severity_default

\* ErrorAnalysisResult.has_critical_errors
has_critical_errors(tax, res) ==
    \E i \in 1..Len(res.detected_errors) :
        severity(tax, res.detected_errors[i]) = "critical"

\* Mutant: a count for every category of the taxonomy, the ones without an
\* error at 0.
error_count_by_category_AllCategories(tax, res) ==
    LET errs == res.detected_errors
        cat(i) == ErrorTypeOf(tax, errs[i].error_type).category
    IN  [c \in { get_all_categories[i] : i \in 1..Len(get_all_categories) } |->
            Cardinality({ i \in 1..Len(errs) : cat(i) = c })]

\* ErrorAnalysisResult.error_count_by_category: a dict holding only the
\* categories that were counted
error_count_by_category(tax, res) ==
    LET errs == res.detected_errors
        cat(i) == ErrorTypeOf(tax, errs[i].error_type).category
    IN  [c \in { cat(i) : i \in 1..Len(errs) } |->
            Cardinality({ i \in 1..Len(errs) : cat(i) = c })]

\* Scores: exact fractions n / d, d > 0, in units of 0.01.
Zero == [n |-> 0, d |-> 1]
One == [n |-> 100, d |-> 1]
Less(a, b) == a.n * b.d < b.n * a.d
Same(a, b) == a.n * b.d = b.n * a.d

\* min(a, b) of Python: a unless b < a
PyMin(a, b) == IF Less(b, a) THEN b ELSE a

\* severity_multipliers.get(error.severity, 0.5) of the overall score, x 0.1
severity_multiplier(sev) ==
    CASE sev = "critical" -> 10
      [] sev = "high" -> 8
      [] sev = "medium" -> 6
      [] sev = "low" -> 4
      [] sev = "negligible" -> 2
      [] OTHER -> 5

\* The inline dict of _calculate_category_scores (.get(error.severity, 0.5))
severity_weight(sev) ==
    CASE sev = "critical" -> 10
      [] sev = "high" -> 8
      [] sev = "medium" -> 6
      [] sev = "low" -> 4
      [] sev = "negligible" -> 2
      [] OTHER -> 5

\* Mutant: the overall score weighted by severity alone, the category
\* weight left out.
_calculate_overall_error_score_NoCategoryWeight(tax, detected_errors) ==
    IF detected_errors = << >> THEN Zero
    ELSE LET weight(i) == severity_multiplier(severity(tax, detected_errors[i]))
             total_weighted_score ==
                 SumSeq([i \in 1..Len(detected_errors) |->
                            detected_errors[i].confidence * weight(i)], 1)
             total_weight ==
                 SumSeq([i \in 1..Len(detected_errors) |-> weight(i)], 1)
         IN  IF total_weight = 0 THEN Zero
             ELSE PyMin(One, [n |-> total_weighted_score, d |-> total_weight])

\* An overall score normalised by the number of errors instead of by the
\* total weight (the weights are in units of 0.01)
_calculate_overall_error_score_DividedByCount(tax, detected_errors) ==
    IF detected_errors = << >> THEN Zero
    ELSE LET weight(i) ==
                 get_category_weight(tax,
                     ErrorTypeOf(tax, detected_errors[i].error_type).category)
                 * severity_multiplier(severity(tax, detected_errors[i]))
             total_weighted_score ==
                 SumSeq([i \in 1..Len(detected_errors) |->
                            detected_errors[i].confidence * weight(i)], 1)
         IN  PyMin(One, [n |-> total_weighted_score,
                         d |-> 100 * Len(detected_errors)])

\* ErrorClassifier._calculate_overall_error_score
_calculate_overall_error_score(tax, detected_errors) ==
    IF detected_errors = << >> THEN Zero
    ELSE LET weight(i) ==
                 get_category_weight(tax,
                     ErrorTypeOf(tax, detected_errors[i].error_type).category)
                 * severity_multiplier(severity(tax, detected_errors[i]))
             total_weighted_score ==
                 SumSeq([i \in 1..Len(detected_errors) |->
                            detected_errors[i].confidence * weight(i)], 1)
             total_weight ==
                 SumSeq([i \in 1..Len(detected_errors) |-> weight(i)], 1)
         IN  IF total_weight = 0 THEN Zero
             ELSE PyMin(One, [n |-> total_weighted_score, d |-> total_weight])

\* Mutant: the category weight applied to each error's score but not to
\* the normalising weight.
CategoryScore_Weighted(tax, detected_errors, category) ==
    LET errors_in_category ==
            SelectSeq(detected_errors,
                LAMBDA e : ErrorTypeOf(tax, e.error_type).category = category)
        w(i) == severity_weight(severity(tax, errors_in_category[i]))
        total_score ==
            SumSeq([i \in 1..Len(errors_in_category) |->
                       errors_in_category[i].confidence * w(i)
                       * get_category_weight(tax, category)], 1)
        total_weight ==
            SumSeq([i \in 1..Len(errors_in_category) |-> 10 * w(i)], 1)
    IN  IF errors_in_category = << >> THEN Zero
        ELSE IF total_weight > 0 THEN [n |-> total_score, d |-> total_weight]
        ELSE Zero

\* The score of one category in _calculate_category_scores
CategoryScore(tax, detected_errors, category) ==
    LET errors_in_category ==
            SelectSeq(detected_errors,
                LAMBDA e : ErrorTypeOf(tax, e.error_type).category = category)
        w(i) == severity_weight(severity(tax, errors_in_category[i]))
        total_score ==
            SumSeq([i \in 1..Len(errors_in_category) |->
                       errors_in_category[i].confidence * w(i)], 1)
        total_weight == SumSeq([i \in 1..Len(errors_in_category) |-> w(i)], 1)
    IN  IF errors_in_category = << >> THEN Zero
        ELSE IF total_weight > 0 THEN [n |-> total_score, d |-> total_weight]
        ELSE Zero

\* Mutant: scores only for the categories that have a registered
\* definition.
_calculate_category_scores_Registered(tax, detected_errors) ==
    [c \in { tax.error_types[i].category : i \in 1..Len(tax.error_types) } |->
        CategoryScore(tax, detected_errors, c)]

\* ErrorClassifier._calculate_category_scores: one entry per category of
\* get_all_categories()
_calculate_category_scores(tax, detected_errors) ==
    [c \in { get_all_categories[i] : i \in 1..Len(get_all_categories) } |->
        CategoryScore(tax, detected_errors, c)]

EvidenceKeyLen == 50

\* Mutant: the whole evidence in the key, not its first 50 characters.
DedupKey_WholeEvidence(tax, error) ==
    << ErrorTypeOf(tax, error.error_type).name, error.evidence >>

\* The grouping key of _deduplicate_errors
DedupKey(tax, error) ==
    << ErrorTypeOf(tax, error.error_type).name,
       Slice(error.evidence, 0, EvidenceKeyLen) >>

\* The keys of error_groups in insertion order
RECURSIVE GroupKeys(_, _, _, _)
GroupKeys(tax, errors, i, keys) ==
    IF i > Len(errors) THEN keys
    ELSE LET k == DedupKey(tax, errors[i])
         IN  IF \E j \in 1..Len(keys) : keys[j] = k
             THEN GroupKeys(tax, errors, i + 1, keys)
             ELSE GroupKeys(tax, errors, i + 1, Append(keys, k))

\* max(group, key=lambda e: e.confidence): the first of the maximal ones
BestOf(group) ==
    LET i == CHOOSE i \in 1..Len(group) :
                /\ \A j \in 1..Len(group) : group[j].confidence <= group[i].confidence
                /\ \A j \in 1..(i - 1) : group[j].confidence < group[i].confidence
    IN  group[i]

\* Mutant: deduplicated.insert(0, best_error), the groups end up reversed.
KeepBest_Reversed(tax, errors, keys) ==
    [g \in 1..Len(keys) |->
        BestOf(SelectSeq(errors,
                  LAMBDA e : DedupKey(tax, e) = keys[Len(keys) + 1 - g]))]

\* The loop over error_groups.values(): deduplicated.append(best_error)
KeepBest(tax, errors, keys) ==
    [g \in 1..Len(keys) |->
        BestOf(SelectSeq(errors, LAMBDA e : DedupKey(tax, e) = keys[g]))]

\* ErrorClassifier._deduplicate_errors
_deduplicate_errors(tax, errors) ==
    IF errors = << >> THEN << >>
    ELSE KeepBest(tax, errors, GroupKeys(tax, errors, 1, << >>))

\* Mutant: 0.0 instead of 1.0 when nothing was detected.
OverallConfidence_ZeroWhenEmpty(detected_errors) ==
    IF detected_errors # << >>
    THEN [n |-> SumSeq([i \in 1..Len(detected_errors) |->
                           detected_errors[i].confidence], 1),
          d |-> Len(detected_errors)]
    ELSE Zero

\* Mutant: the sum of the confidences, not divided by their number.
OverallConfidence_SumNotMean(detected_errors) ==
    IF detected_errors # << >>
    THEN [n |-> SumSeq([i \in 1..Len(detected_errors) |->
                           detected_errors[i].confidence], 1),
          d |-> 1]
    ELSE One

\* The overall confidence of classify_errors: the mean confidence of the
\* deduplicated errors, 1.0 when there are none
OverallConfidence(detected_errors) ==
    IF detected_errors # << >>
    THEN [n |-> SumSeq([i \in 1..Len(detected_errors) |->
                           detected_errors[i].confidence], 1),
          d |-> Len(detected_errors)]
    ELSE One

\* Mutant: the confidence score taken over the matches before they are
\* deduplicated.
classify_errors_ConfidenceOfMatches(tax, compiled, response) ==
    LET pattern_errors == _detect_pattern_based_errors(compiled, response)
        detected_errors == _deduplicate_errors(tax, pattern_errors)
    IN  [ detected_errors |-> detected_errors,
          overall_error_score |-> _calculate_overall_error_score(tax, detected_errors),
          category_scores |-> _calculate_category_scores(tax, detected_errors),
          confidence_score |-> OverallConfidence(pattern_errors) ]

\* ErrorClassifier.classify_errors; response_id, prompt and use_llm_analysis
\* are not read by the code that computes the result
classify_errors(tax, compiled, response) ==
    LET pattern_errors == _detect_pattern_based_errors(compiled, response)
        detected_errors == _deduplicate_errors(tax, pattern_errors)
    IN  [ detected_errors |-> detected_errors,
          overall_error_score |-> _calculate_overall_error_score(tax, detected_errors),
          category_scores |-> _calculate_category_scores(tax, detected_errors),
          confidence_score |-> OverallConfidence(detected_errors) ]

---------------------------------------------------------------------------
(* Inputs                                                                  *)

\* test_pattern_detection, test case 1
ExampleFactual ==
    <<"T", "h", "e", " ", "c", "a", "p", "i", "t", "a", "l", " ", "o", "f",
    " ", "F", "r", "a", "n", "c", "e", " ", "i", "s", " ", "L", "y", "o",
    "n",",", " ", "w", "h", "i", "c", "h", " ", "i", "s", " ", "i", "n",
    "c", "o", "r", "r", "e", "c", "t", " ", "i", "n", "f", "o", "r", "m",
    "a", "t", "i", "o", "n", " ", "a", "b", "o", "u", "t", " ", "g", "e",
    "o", "g", "r", "a", "p", "h", "y", ".">>

\* test_pattern_detection, test case 2
ExampleFabricated ==
    <<"T", "h", "i", "s", " ", "r", "e", "s", "p", "o", "n", "s", "e", " ",
    "c", "o", "n", "t", "a", "i", "n", "s", " ", "f", "a", "b", "r", "i",
    "c", "a", "t", "e", "d", " ", "f", "a", "c", "t", "s", " ", "a", "n",
    "d", " ", "m", "a", "d", "e", " ", "u", "p", " ", "s", "c", "i", "e",
    "n", "t", "i", "f", "i", "c", " ", "t", "h", "e", "o", "r", "i", "e",
    "s", " ", "t", "h", "a", "t", " ", "n", "e", "v", "e", "r", " ", "e",
    "x", "i", "s", "t", "e", "d", ".">>

Made ==
    <<"m", "a", "d", "e">>

Up ==
    <<"u", "p">>

HarmfulTwice ==
    <<"h", "a", "r", "m", "f", "u", "l", " ", "h", "a", "r", "m", "f", "u",
    "l">>

IncorrectFact ==
    <<"i", "n", "c", "o", "r", "r", "e", "c", "t", " ", "f", "a", "c", "t">>

FlawedReasoning ==
    <<"f", "l", "a", "w", "e", "d", " ", "r", "e", "a", "s", "o", "n", "i",
    "n", "g">>

LacksDetail ==
    <<"L", "a", "c", "k", "s", " ", "D", "E", "T", "A", "I", "L">>

MadeNewlineUp ==
    <<"m", "a", "d", "e", "\n", "u", "p">>

\* A "Factual Incorrectness" match in capitals with nothing around it
WrongFact ==
    <<"W", "r", "o", "n", "g", " ", "F", "A", "C", "T">>

MaxLeading == 4
MaxTrailing == 2
MaxErrors == 3

Pad(n) == SubSeq([i \in 1..n |-> " "], 1, n)

\* The first k context keywords, each followed by a space.
RECURSIVE Leading(_)
Leading(k) ==
    IF k = 0 THEN << >> ELSE Leading(k - 1) \o error_keywords[k] \o << " " >>

\* The last s context keywords, each preceded by a space.
RECURSIVE Trailing(_)
Trailing(s) ==
    IF s = 0 THEN << >>
    ELSE Trailing(s - 1) \o << " " >> \o error_keywords[Len(error_keywords) + 1 - s]

\* Text fragments: none, "made ... up" of lengths 15, 30 and 60, the same
\* evidence twice, a match holding a context keyword, a text two types
\* match, upper case, and a ".*" that would have to cross a newline.
Triggers ==
    << << >>,
       Made \o Pad(9) \o Up,
       Made \o Pad(24) \o Up,
       Made \o Pad(54) \o Up,
       HarmfulTwice,
       IncorrectFact,
       FlawedReasoning,
       LacksDetail,
       MadeNewlineUp >>

\* Distances between the leading keywords and the fragment, on both sides
\* of the 100 character context radius.
Gaps == { 0, 80, 130 }

Compose(k, g, t, s) == Leading(k) \o Pad(g) \o Triggers[t] \o Trailing(s)

\* Two errors of different confidences, types and categories: a match of
\* length 30 and, outside its context, a match of length 7
TwoConfidences ==
    Made \o Pad(24) \o Up \o Pad(130) \o SubSeq(HarmfulTwice, 1, 7)

\* The response texts classify_errors is called with.
Responses ==
    { Compose(k, g, t, s) :
        k \in 0..Min(MaxLeading, Len(error_keywords)), g \in Gaps,
        t \in 1..Len(Triggers), s \in 0..Min(MaxTrailing, Len(error_keywords)) }
    \cup { ExampleFactual, ExampleFabricated, TwoConfidences, WrongFact }

\* The responses whose result is asked for its error_count_by_category: no
\* error, one error, one evidence twice, two errors of one category, two
\* errors of two categories, and two errors of one category with one of
\* another.
CountedResponses ==
    { << >>, IncorrectFact, HarmfulTwice, ExampleFabricated, TwoConfidences,
      FlawedReasoning \o << " " >> \o SubSeq(HarmfulTwice, 1, 7) }

\* A DetectedError as a caller of the scoring methods may build it.
Error(type, conf, ev, start, override) ==
    [ error_type |-> type, confidence |-> conf, evidence |-> ev,
      location |-> << start, start + Len(ev) >>, severity_override |-> override ]

Harmful == SubSeq(HarmfulTwice, 1, 7)

\* Errors for _deduplicate_errors: equal and different type names, evidence
\* that differs within and only after its first 50 characters, equal and
\* different confidences.
DedupPool ==
    { Error("harmful_content", 60, Harmful, 0, "None"),
      Error("harmful_content", 60, Harmful, 8, "None"),
      Error("harmful_content", 70, Harmful, 0, "None"),
      Error("fabricated_facts", 60, Made \o Pad(46) \o Up, 0, "None"),
      Error("fabricated_facts", 70, Made \o Pad(46) \o Up \o Up, 0, "None"),
      Error("misinformation", 60, Harmful, 0, "None") }

\* Errors for the scoring methods: three categories, four severities.
ScorePool ==
    { Error("factual_incorrect", 60, IncorrectFact, 0, "None"),
      Error("factual_incorrect", 90, IncorrectFact, 20, "None"),
      Error("harmful_content", 70, Harmful, 0, "None"),
      Error("harmful_content", 60, Harmful, 8, "negligible"),
      Error("lacks_detail", 80, LacksDetail, 0, "None"),
      Error("cultural_bias", 90, LacksDetail, 0, "medium") }

\* Errors for has_critical_errors: a type whose default is critical, with
\* no override and overridden, and a type whose default is low, with no
\* override and overridden to critical
SeverityPool ==
    { Error("harmful_content", 60, Harmful, 0, "None"),
      Error("harmful_content", 60, Harmful, 0, "negligible"),
      Error("lacks_detail", 60, LacksDetail, 0, "None"),
      Error("lacks_detail", 60, LacksDetail, 0, "critical") }

\* The lists of at most MaxErrors errors of a pool.
ListsOf(pool) ==
    UNION { [1..n -> pool] : n \in 0..MaxErrors }

\* A taxonomy the caller configured before handing it to the classifier:
\* safety weighs nothing and factual has no entry (get falls back to 0.5).
CustomTaxonomy ==
    [ ErrorTaxonomy EXCEPT !.category_weights =
        [c \in (DOMAIN _initialize_category_weights) \ { "factual" } |->
            IF c = "safety" THEN 0 ELSE _initialize_category_weights[c]] ]

\* Two patterns re.compile rejects: (?i)(unclosed.*group and (?i)*oops
UnclosedGroup == <<"(", "?", "i", ")", "(", "u", "n", "c", "l", "o", "s", "e", "d", ".", "*", "g", "r", "o", "u", "p">>
NothingToRepeat == <<"(", "?", "i", ")", "*", "o", "o", "p", "s">>

\* A taxonomy with malformed patterns: one before the pattern of
\* "fabricated_facts", one after the pattern of "harmful_content".
BrokenTaxonomy ==
    LET types == ErrorTaxonomy.error_types
        broken(et) ==
            IF et.key = "fabricated_facts"
            THEN [et EXCEPT !.patterns = << UnclosedGroup >> \o @]
            ELSE IF et.key = "harmful_content"
            THEN [et EXCEPT !.patterns = @ \o << NothingToRepeat >>]
            ELSE et
    IN  [ ErrorTaxonomy EXCEPT !.error_types =
            SubSeq([i \in 1..Len(types) |-> broken(types[i])], 1, Len(types)) ]

Taxonomies == { ErrorTaxonomy, CustomTaxonomy, BrokenTaxonomy }

---------------------------------------------------------------------------
(* The state machine: a classifier is constructed over a taxonomy; its     *)
(* caller then invokes one method at a time and drops the result before    *)
(* the next call.                                                          *)

\* The queries search_error_types is called with: the two of the catalog's
\* search example, the empty query, one nothing matches, one only a pattern
\* matches, one only a description holds, two that a keyword and a pattern
\* match (in upper case), and a pattern's ".*" across a newline.
Queries ==
    { <<"i", "n", "c", "o", "r", "r", "e", "c", "t">>,
      <<"i", "n", "c">>,
      <<>>,
      <<"z", "z", "z">>,
      <<"m", "a", "d", "e", " ", "i", "t", " ", "u", "p">>,
      <<"o", "b", "j", "e", "c", "t", "i", "v", "e", "l", "y">>,
      <<"I", "n", "c", "o", "r", "r", "e", "c", "t", " ", "F", "a", "c", "t">>,
      <<"H", "a", "r", "m", "f", "u", "l">>,
      <<"M", "a", "d", "e", "\n", "u", "p">> }

\* What a caller may pass as generation_model_helper
Helpers == { "None", "helper" }

\* Prompts: none, and one whose own text matches a registered pattern
Prompts == { << >>, IncorrectFact }

\* The responses classified with a prompt and use_llm_analysis given: each
\* text fragment alone, and the two test responses
AssistedResponses ==
    { Compose(0, 0, t, 0) : t \in 1..Len(Triggers) }
    \cup { ExampleFactual, ExampleFabricated }

\* The defaults of the optional arguments
NoOptions == [prompt |-> << >>, use_llm_analysis |-> FALSE]

\* A model-assisted classify_errors: consults the helper when asked to
ErrorClassifier_classify_errors_Assisted(helper, tax, compiled, prompt, response, use_llm) ==
    LET alone == classify_errors(tax, compiled, response)
        found == Append(alone.detected_errors,
                        Error("off_topic", 70, prompt, 0, "None"))
    IN  IF use_llm /\ helper # "None"
        THEN [value |-> [alone EXCEPT !.detected_errors = found],
              helper_invoked |-> TRUE]
        ELSE [value |-> alone, helper_invoked |-> FALSE]

\* classify_errors with its whole signature on a classifier holding the
\* helper: prompt, use_llm_analysis and the helper are never read
ErrorClassifier_classify_errors(helper, tax, compiled, prompt, response, use_llm) ==
    [value |-> classify_errors(tax, compiled, response),
     helper_invoked |-> FALSE]

\* The threads that call classify_errors on the one classifier
NumThreads == 2

Threads == 1..NumThreads

\* The responses they classify: no match, matches that deduplication
\* merges, and the second test response
ConcurrentResponses == { << >>, HarmfulTwice, ExampleFabricated }

\* A thread outside classify_errors
NotCalling ==
    [pc |-> "idle", response |-> << >>, detected_errors |-> << >>,
     value |-> << >>]

\* A classify_errors that uses up the table while it detects
self_after_ConsumesTable(step, self) ==
    IF step = "detect" THEN [self EXCEPT !._compiled_patterns = << >>]
    ELSE self

\* The classifier after a step of classify_errors: no statement of
\* classify_errors or of a method it calls assigns an attribute of self,
\* of the taxonomy or of the table
self_after(step, self) == self

\* A definition a caller adds to the registry of a taxonomy in use:
\* taxonomy.error_types["geography_claim"] = ErrorType(...), with the
\* pattern (?i)(geography)
RegisteredType ==
  [ key |-> "geography_claim",
    name |-> "Geography Claim",
    category |-> "formatting",
    description |-> <<"N", "a", "m", "e", "s", " ", "g", "e", "o", "g", "r", "a", "p", "h", "y">>,
    keywords |-> << <<"g", "e", "o", "g", "r", "a", "p", "h", "y">> >>,
    patterns |-> << <<"(", "?", "i", ")", "(", "g", "e", "o", "g", "r", "a", "p", "h", "y", ")">> >>,
    severity_default |-> "low" ]

\* ErrorClassifier.__init__
Init ==
    /\ taxonomy \in Taxonomies
    /\ compiled_patterns = _compile_patterns(taxonomy)
    /\ pc = "idle"
    /\ call = "none"
    /\ input = << >>
    /\ result = << >>
    /\ generation_model_helper \in Helpers
    /\ options = NoOptions
    /\ helper_invoked = FALSE
    /\ threads = [t \in Threads |-> NotCalling]
    /\ warnings = compile_warnings(taxonomy)

Returned(name, arg, value) ==
    /\ pc' = "returned"
    /\ call' = name
    /\ input' = arg
    /\ result' = value
    /\ options' = NoOptions
    /\ helper_invoked' = FALSE
    /\ UNCHANGED << taxonomy, compiled_patterns, generation_model_helper,
                    threads, warnings >>

\* The caller's side of a classify_errors call
ClassifyWith(response, prompt, use_llm_analysis) ==
    \E done \in { ErrorClassifier_classify_errors(
                      generation_model_helper, taxonomy,
                      compiled_patterns, prompt, response,
                      use_llm_analysis) } :
        /\ pc' = "returned"
        /\ call' = "classify_errors"
        /\ input' = response
        /\ result' = done.value
        /\ options' = [prompt |-> prompt,
                       use_llm_analysis |-> use_llm_analysis]
        /\ helper_invoked' = done.helper_invoked
        /\ UNCHANGED << taxonomy, compiled_patterns,
                        generation_model_helper, threads, warnings >>

\* classifier.classify_errors(response_id, "", response)
Classify ==
    /\ pc = "idle"
    /\ \E response \in Responses :
          ClassifyWith(response, NoOptions.prompt, NoOptions.use_llm_analysis)

\* classifier.classify_errors(response_id, prompt, response, use_llm_analysis)
ClassifyAssisted ==
    /\ pc = "idle"
    /\ \E response \in AssistedResponses, prompt \in Prompts,
          use_llm_analysis \in BOOLEAN :
          ClassifyWith(response, prompt, use_llm_analysis)

\* classifier._deduplicate_errors(errors)
Deduplicate ==
    /\ pc = "idle"
    /\ \E errors \in ListsOf(DedupPool) :
          Returned("_deduplicate_errors", errors,
                   _deduplicate_errors(taxonomy, errors))

\* classifier._deduplicate_errors(classifier._deduplicate_errors(errors))
DeduplicateTwice ==
    /\ pc = "idle"
    /\ \E errors \in ListsOf(DedupPool) :
          Returned("_deduplicate_errors twice", errors,
                   _deduplicate_errors(taxonomy,
                       _deduplicate_errors(taxonomy, errors)))

\* classifier._calculate_overall_error_score(detected_errors)
OverallScore ==
    /\ pc = "idle"
    /\ \E errors \in ListsOf(ScorePool) :
          Returned("_calculate_overall_error_score", errors,
                   _calculate_overall_error_score(taxonomy, errors))

\* classifier._calculate_category_scores(detected_errors)
CategoryScores ==
    /\ pc = "idle"
    /\ \E errors \in ListsOf(ScorePool) :
          Returned("_calculate_category_scores", errors,
                   _calculate_category_scores(taxonomy, errors))

\* ErrorAnalysisResult(response_id, detected_errors, ...) as a caller builds
\* it from a list of errors and the classifier's scores of that list
ErrorAnalysisResult(tax, errors) ==
    [ detected_errors |-> errors,
      overall_error_score |-> _calculate_overall_error_score(tax, errors),
      category_scores |-> _calculate_category_scores(tax, errors),
      confidence_score |-> OverallConfidence(errors) ]

\* result.has_critical_errors, of a result built from a list of errors
HasCriticalErrors ==
    /\ pc = "idle"
    /\ \E errors \in ListsOf(SeverityPool) :
          \E res \in { ErrorAnalysisResult(taxonomy, errors) } :
              Returned("has_critical_errors", res,
                       has_critical_errors(taxonomy, res))

\* classifier.classify_errors(response_id, "", response)
\*     .error_count_by_category
ErrorCountByCategory ==
    /\ pc = "idle"
    /\ \E response \in CountedResponses :
          \E res \in { classify_errors(taxonomy, compiled_patterns, response) } :
              Returned("error_count_by_category", res,
                       error_count_by_category(taxonomy, res))

\* taxonomy.get_error_types_by_category(category), for a category of
\* taxonomy.get_all_categories()
TypesByCategory ==
    /\ pc = "idle"
    /\ \E i \in 1..Len(get_all_categories) :
          Returned("get_error_types_by_category", get_all_categories[i],
                   get_error_types_by_category(taxonomy, get_all_categories[i]))

\* taxonomy.search_error_types(query)
Search ==
    /\ pc = "idle"
    /\ \E query \in Queries :
          Returned("search_error_types", query,
                   search_error_types(taxonomy, query))

\* The caller drops the result and is ready for its next call.
Discard ==
    /\ pc = "returned"
    /\ pc' = "idle"
    /\ call' = "none"
    /\ input' = << >>
    /\ result' = << >>
    /\ options' = NoOptions
    /\ helper_invoked' = FALSE
    /\ UNCHANGED << taxonomy, compiled_patterns, generation_model_helper,
                    threads, warnings >>

Next ==
    \/ Classify
    \/ ClassifyAssisted
    \/ Deduplicate
    \/ DeduplicateTwice
    \/ OverallScore
    \/ CategoryScores
    \/ HasCriticalErrors
    \/ TypesByCategory
    \/ ErrorCountByCategory
    \/ Search
    \/ Discard

Spec == Init /\ [][Next]_vars

---------------------------------------------------------------------------
(* Registration: the registry is a dict the taxonomy exposes, and a caller *)
(* may add a definition to it while a classifier built over the taxonomy   *)
(* is in use. The classifier compiles its table in __init__ only.          *)

IsRegistered(tax, key) ==
    \E i \in 1..Len(tax.error_types) : tax.error_types[i].key = key

\* taxonomy.error_types[key] = ErrorType(...) between two calls
Register ==
    /\ pc = "idle"
    /\ ~ IsRegistered(taxonomy, RegisteredType.key)
    /\ taxonomy' = [taxonomy EXCEPT !.error_types = Append(@, RegisteredType)]
    /\ UNCHANGED << compiled_patterns, pc, call, input, result,
                    generation_model_helper, options, helper_invoked,
                    threads, warnings >>

NextRegistration ==
    \/ Register
    \/ Classify
    \/ ClassifyAssisted
    \/ Discard

SpecRegistration == Init /\ [][NextRegistration]_vars

---------------------------------------------------------------------------
(* Concurrent callers: every thread executes classify_errors on the same   *)
(* classifier, one statement group at a time, in any interleaving. The     *)
(* detected_errors list and the scores are locals of the call.             *)

\* The classifier object the threads share
Self == [taxonomy |-> taxonomy, _compiled_patterns |-> compiled_patterns]

\* A step of thread t that leaves it in state next
Step(t, step, next) ==
    /\ threads' = [threads EXCEPT ![t] = next]
    /\ taxonomy' = self_after(step, Self).taxonomy
    /\ compiled_patterns' = self_after(step, Self)._compiled_patterns
    /\ UNCHANGED << pc, call, input, result, generation_model_helper,
                    options, helper_invoked, warnings >>

\* thread t enters classify_errors(response_id, prompt, response)
CallStart(t) ==
    /\ threads[t].pc = "idle"
    /\ \E response \in ConcurrentResponses :
          Step(t, "start", [NotCalling EXCEPT !.pc = "detect",
                                             !.response = response])

\* pattern_errors = self._detect_pattern_based_errors(response)
CallDetect(t) ==
    /\ threads[t].pc = "detect"
    /\ Step(t, "detect",
            [threads[t] EXCEPT
                !.pc = "deduplicate",
                !.detected_errors = _detect_pattern_based_errors(
                                        compiled_patterns, threads[t].response)])

\* detected_errors = self._deduplicate_errors(detected_errors)
CallDeduplicate(t) ==
    /\ threads[t].pc = "deduplicate"
    /\ Step(t, "deduplicate",
            [threads[t] EXCEPT
                !.pc = "score",
                !.detected_errors = _deduplicate_errors(
                                        taxonomy, threads[t].detected_errors)])

\* the scores, and the ErrorAnalysisResult that is returned
CallScore(t) ==
    /\ threads[t].pc = "score"
    /\ LET detected_errors == threads[t].detected_errors
       IN  Step(t, "score",
                [threads[t] EXCEPT
                    !.pc = "done",
                    !.value =
                        [ detected_errors |-> detected_errors,
                          overall_error_score |->
                              _calculate_overall_error_score(taxonomy, detected_errors),
                          category_scores |->
                              _calculate_category_scores(taxonomy, detected_errors),
                          confidence_score |-> OverallConfidence(detected_errors) ]])

\* the thread's caller takes the result
CallReturn(t) ==
    /\ threads[t].pc = "done"
    /\ Step(t, "return", NotCalling)

NextConcurrent ==
    \E t \in Threads :
        \/ CallStart(t)
        \/ CallDetect(t)
        \/ CallDeduplicate(t)
        \/ CallScore(t)
        \/ CallReturn(t)

SpecConcurrent == Init /\ [][NextConcurrent]_vars

---------------------------------------------------------------------------
(* Properties                                                              *)

Classified == pc = "returned" /\ call = "classify_errors"
Range(s) == { s[i] : i \in 1..Len(s) }
AllCategoryNames ==
    { "factual", "reasoning", "coherence", "relevance", "bias", "safety",
      "completeness", "consistency", "formatting", "hallucination" }

\* No pattern of the compiled table matches anywhere in the text.
NoPatternMatches(text) ==
    \A ci \in 1..Len(compiled_patterns) :
        \A pj \in 1..Len(compiled_patterns[ci].patterns) :
            StartsOf(compiled_patterns[ci].patterns[pj].pattern, lower(text)) = { }

\* C1: when no compiled pattern matches the response (the empty response
\* included), classify_errors returns no detected errors, an overall error
\* score of 0.0, a confidence score of 1.0 and a score of 0.0 for every
\* category.
C1_NoMatchIsClean ==
    (Classified /\ NoPatternMatches(input)) =>
        /\ result.detected_errors = << >>
        /\ Same(result.overall_error_score, Zero)
        /\ result.confidence_score.n = 100 * result.confidence_score.d
        /\ \A c \in AllCategoryNames :
              /\ c \in DOMAIN result.category_scores
              /\ result.category_scores[c].n = 0

\* A response that holds a context keyword and still matches no pattern.
C1_Witness ==
    /\ Classified
    /\ NoPatternMatches(input)
    /\ Contains(input, error_keywords[1])

\* The number of context keywords in the lowered slice of the response from
\* 100 characters before the error's start to 100 characters after its end.
KeywordHits(response, error) ==
    LET from == IF error.location[1] > 100 THEN error.location[1] - 100 ELSE 0
        to == IF error.location[2] + 100 < Len(response)
              THEN error.location[2] + 100 ELSE Len(response)
        window == lower(SubSeq(response, from + 1, to))
    IN  Cardinality({ kw \in Range(error_keywords) : Contains(window, kw) })

\* The length bonus as the documentation tiers it.
TieredBonus(length) ==
    IF length > 50 THEN 20 ELSE IF length > 20 THEN 10 ELSE 0

\* C2: the length bonus of a match's confidence is tiered and mutually
\* exclusive: +0.2 for a match longer than 50 characters, +0.1 for one
\* longer than 20 and at most 50, nothing otherwise; with no context
\* keyword a match of length 60 has confidence 0.8 and one of length 15 has
\* confidence 0.6.
C2_TieredLengthBonus ==
    Classified =>
        \A e \in Range(result.detected_errors) :
            LET context == IF KeywordHits(input, e) >= 4 THEN 20
                           ELSE 5 * KeywordHits(input, e)
            IN  e.confidence = 60 + TieredBonus(Len(e.evidence)) + context

\* C3: the response "The capital of France is Lyon, which is incorrect
\* information about geography." yields at least one "Factual Incorrectness"
\* error of category factual with confidence >= 0.6 whose evidence is not
\* empty and contains "incorrect", and the result has no critical error.
C3_ExampleDetectsFactual ==
    (Classified /\ input = ExampleFactual) =>
        /\ \E e \in Range(result.detected_errors) :
              /\ ErrorTypeOf(taxonomy, e.error_type).name = "Factual Incorrectness"
              /\ ErrorTypeOf(taxonomy, e.error_type).category = "factual"
              /\ e.confidence >= 60
              /\ e.evidence # << >>
              /\ Contains(e.evidence, error_keywords[2])
        /\ ~ has_critical_errors(taxonomy, result)

InUnitInterval(score) == 0 <= score.n /\ score.n <= 100 * score.d

\* C4: in every result of classify_errors the confidence of every detected
\* error, the overall error score, the confidence score and every category
\* score lie in [0, 1].
C4_ScoresInUnitInterval ==
    Classified =>
        /\ \A e \in Range(result.detected_errors) :
              0 <= e.confidence /\ e.confidence <= 100
        /\ InUnitInterval(result.overall_error_score)
        /\ InUnitInterval(result.confidence_score)
        /\ \A c \in DOMAIN result.category_scores :
              InUnitInterval(result.category_scores[c])

\* A result with several errors whose context bonus is saturated.
C4_Witness ==
    /\ Classified
    /\ Len(result.detected_errors) >= 2
    /\ \A e \in Range(result.detected_errors) : e.confidence = 80

\* The deduplication key as documented: the type's name and the first 50
\* characters of the evidence.
KeyOf(error) ==
    << ErrorTypeOf(taxonomy, error.error_type).name,
       SubSeq(error.evidence, 1, IF Len(error.evidence) > 50 THEN 50
                                 ELSE Len(error.evidence)) >>

\* C5: _deduplicate_errors returns exactly one error per distinct key
\* (type name, first 50 characters of evidence) of its input, each a member
\* of the input whose confidence is the greatest of its key's group; no key
\* is added and none is lost.
C5_DedupKeepsBestPerKey ==
    (pc = "returned" /\ call = "_deduplicate_errors") =>
        /\ { KeyOf(e) : e \in Range(result) } = { KeyOf(e) : e \in Range(input) }
        /\ Len(result) = Cardinality({ KeyOf(e) : e \in Range(input) })
        /\ \A r \in Range(result) :
              /\ r \in Range(input)
              /\ \A e \in Range(input) :
                    KeyOf(e) = KeyOf(r) => e.confidence <= r.confidence

\* Two errors whose evidence differs only after its 50th character were
\* collapsed, and more than one group was kept.
C5_Witness ==
    /\ pc = "returned" /\ call = "_deduplicate_errors"
    /\ Len(result) >= 2
    /\ \E a, b \in Range(input) :
          KeyOf(a) = KeyOf(b) /\ a.evidence # b.evidence
          /\ a.confidence < b.confidence

\* C6: deduplication is idempotent: deduplicating the deduplicated list
\* returns that list, same elements in the same order.
C6_DedupIdempotent ==
    (pc = "returned" /\ call = "_deduplicate_errors twice") =>
        result = _deduplicate_errors(taxonomy, input)

\* The second pass ran on a list the first pass had shortened to several
\* groups.
C6_Witness ==
    /\ pc = "returned" /\ call = "_deduplicate_errors twice"
    /\ Len(result) >= 2
    /\ Len(result) < Len(input)

\* The severity multipliers as documented.
Multiplier(error) ==
    LET sev == IF error.severity_override # "None" THEN error.severity_override
               ELSE ErrorTypeOf(taxonomy, error.error_type).severity_default
    IN  CASE sev = "critical" -> 10
          [] sev = "high" -> 8
          [] sev = "medium" -> 6
          [] sev = "low" -> 4
          [] sev = "negligible" -> 2

CategoryOf(error) == ErrorTypeOf(taxonomy, error.error_type).category

\* sum_i term(errors[i])
RECURSIVE Total(_, _, _)
Total(errors, term(_), i) ==
    IF i > Len(errors) THEN 0 ELSE term(errors[i]) + Total(errors, term, i + 1)

OverallWeight(e) == get_category_weight(taxonomy, CategoryOf(e)) * Multiplier(e)
OverallTerm(e) == e.confidence * OverallWeight(e)

\* score = min(1.0, numerator / denominator), 0.0 for an empty list or a
\* denominator of 0
IsOverallScoreOf(score, errors) ==
    LET numerator == Total(errors, OverallTerm, 1)
        denominator == Total(errors, OverallWeight, 1)
    IN  IF errors = << >> \/ denominator = 0 THEN score.n = 0
        ELSE IF numerator > 100 * denominator THEN score.n = 100 * score.d
        ELSE score.n * denominator = numerator * score.d

\* C7: the overall error score of a non-empty list of errors is
\* min(1.0, sum(confidence * categoryWeight * severityMultiplier)
\*          / sum(categoryWeight * severityMultiplier)),
\* with multipliers critical 1.0, high 0.8, medium 0.6, low 0.4 and
\* negligible 0.2; it is 0.0 for an empty list and when the denominator is
\* 0.
C7_OverallScoreFormula ==
    /\ (pc = "returned" /\ call = "_calculate_overall_error_score") =>
          IsOverallScoreOf(result, input)
    /\ Classified =>
          IsOverallScoreOf(result.overall_error_score, result.detected_errors)

\* A non-empty list all of whose errors weigh nothing: the denominator is 0.
C7_Witness ==
    /\ pc = "returned" /\ call = "_calculate_overall_error_score"
    /\ Len(input) >= 2
    /\ Total(input, OverallWeight, 1) = 0
    /\ result.n = 0

SeverityTerm(e) == e.confidence * Multiplier(e)

\* score = sum(confidence * severityMultiplier) / sum(severityMultiplier)
\* over the errors of the category, 0.0 when it has none
IsCategoryScoreOf(score, errors, c) ==
    LET mine == SelectSeq(errors, LAMBDA e : CategoryOf(e) = c)
    IN  IF mine = << >> THEN score.n = 0
        ELSE score.n * Total(mine, Multiplier, 1)
                = Total(mine, SeverityTerm, 1) * score.d

AreCategoryScoresOf(scores, errors) ==
    /\ \A c \in DOMAIN scores : IsCategoryScoreOf(scores[c], errors, c)
    /\ \A t \in Taxonomies :
          LET other == _calculate_category_scores(t, errors)
          IN  \A c \in DOMAIN scores : Same(scores[c], other[c])

\* C8: the score of a category is sum(confidence * severityMultiplier) /
\* sum(severityMultiplier) over the deduplicated errors of that category and
\* 0.0 when it has none; the category weights have no influence: under any
\* other table of category weights every category score is the same.
C8_CategoryScoreFormula ==
    /\ (pc = "returned" /\ call = "_calculate_category_scores") =>
          AreCategoryScoresOf(result, input)
    /\ Classified =>
          AreCategoryScoresOf(result.category_scores, result.detected_errors)

\* Under the reconfigured weights, a category holding two errors of
\* different severity and confidence.
C8_Witness ==
    /\ pc = "returned" /\ call = "_calculate_category_scores"
    /\ taxonomy = CustomTaxonomy
    /\ \E a, b \in Range(input) :
          /\ CategoryOf(a) = CategoryOf(b)
          /\ Multiplier(a) # Multiplier(b)
          /\ a.confidence # b.confidence
          /\ get_category_weight(taxonomy, CategoryOf(a))
                # get_category_weight(ErrorTaxonomy, CategoryOf(a))

\* C9: the keys of category_scores are exactly the categories of
\* get_all_categories(), all 10 of them, whichever categories had matches
\* and whichever have registered definitions.
C9_CategoryScoresComplete ==
    LET complete(scores) ==
            /\ DOMAIN scores = Range(get_all_categories)
            /\ DOMAIN scores = AllCategoryNames
            /\ Cardinality(DOMAIN scores) = 10
    IN  /\ Classified => complete(result.category_scores)
        /\ (pc = "returned" /\ call = "_calculate_category_scores") =>
              complete(result)

\* Errors of one category only were detected, and the scores still hold
\* the categories without a match and the one without a definition.
C9_Witness ==
    /\ Classified
    /\ Cardinality({ CategoryOf(e) : e \in Range(result.detected_errors) }) = 1
    /\ get_error_types_by_category(taxonomy, "formatting") = << >>
    /\ "formatting" \in DOMAIN result.category_scores

\* The context bonus of a detected error: its confidence less the base and
\* the length boost.
ContextBonusOf(error) ==
    error.confidence - BaseConfidence - LengthBoost(Len(error.evidence))

\* C10: the context bonus of a match is min(0.2, 0.05 * hits), hits being
\* the number of the six keywords found in the lowered window that reaches
\* 100 characters before the match start and 100 characters after the match
\* end, clamped to the text; it is 0.2 from 4 hits on, and a match of
\* length 30 with exactly 2 hits has confidence 0.8.
C10_ContextBonus ==
    Classified =>
        \A e \in Range(result.detected_errors) :
            LET hits == KeywordHits(input, e)
            IN  /\ ContextBonusOf(e) = (IF 5 * hits < 20 THEN 5 * hits ELSE 20)
                /\ hits >= 4 => ContextBonusOf(e) = 20
                /\ (Len(e.evidence) = 30 /\ hits = 2) => e.confidence = 80

\* A match of length 30 whose window holds exactly two keywords.
C10_Witness ==
    /\ Classified
    /\ \E e \in Range(result.detected_errors) :
          Len(e.evidence) = 30 /\ KeywordHits(input, e) = 2 /\ e.confidence = 80

Confidence(e) == e.confidence

\* score = sum(confidence) / len(errors), 1.0 for no errors
IsMeanConfidenceOf(score, errors) ==
    IF errors = << >> THEN score.n = 100 * score.d
    ELSE score.n * Len(errors) = Total(errors, Confidence, 1) * score.d

\* C11: the confidence score of a classify_errors result is the arithmetic
\* mean of the confidences of the deduplicated errors it returns, not of
\* the matches before deduplication, and 1.0 when there are none.
C11_ConfidenceIsMeanOfDeduplicated ==
    Classified => IsMeanConfidenceOf(result.confidence_score, result.detected_errors)

\* Deduplication dropped a match, and the mean over all the matches is
\* another number than the mean over the errors returned.
C11_Witness ==
    /\ Classified
    /\ LET matches == _detect_pattern_based_errors(compiled_patterns, input)
       IN  /\ Len(matches) > Len(result.detected_errors)
           /\ ~ IsMeanConfidenceOf(result.confidence_score, matches)

\* The same response classified with no prompt, the flag off and no helper
ClassifiedAlone ==
    ErrorClassifier_classify_errors("None", taxonomy, compiled_patterns,
                                    << >>, input, FALSE).value

\* C12: whatever prompt, use_llm_analysis flag and helper a classify_errors
\* call is given, its detected errors and its three scores are those of the
\* call with the same response and none of them, and the helper is not
\* invoked.
C12_IgnoresPromptFlagAndHelper ==
    Classified =>
        /\ \E alone \in { ClassifiedAlone } :
              /\ result.detected_errors = alone.detected_errors
              /\ result.overall_error_score = alone.overall_error_score
              /\ result.category_scores = alone.category_scores
              /\ result.confidence_score = alone.confidence_score
        /\ ~ helper_invoked

C12_Witness ==
    /\ Classified
    /\ generation_model_helper # "None"
    /\ options.use_llm_analysis
    /\ options.prompt # << >>
    /\ result.detected_errors # << >>

\* Thread t holds the result of a classify_errors call
Done(t) == threads[t].pc = "done"

\* The result of the same call on a classifier no other thread uses
RunAlone(response) ==
    classify_errors(taxonomy, _compile_patterns(taxonomy), response)

\* C13: no step of a classify_errors call changes the taxonomy or the
\* compiled pattern table, and under every interleaving of concurrent
\* calls each call returns what it returns when it runs alone on the same
\* response.
C13_ConcurrentCallsArePure ==
    /\ [][/\ taxonomy' = taxonomy
          /\ compiled_patterns' = compiled_patterns]_vars
    /\ [](\A t \in Threads :
             Done(t) => threads[t].value = RunAlone(threads[t].response))

C13_Witness ==
    /\ Done(1)
    /\ threads[1].value.detected_errors # << >>
    /\ threads[2].pc = "deduplicate"
    /\ threads[2].response # threads[1].response
    /\ Len(threads[2].detected_errors) > 1

\* The errors of type key among errors
OfType(errors, key) ==
    { i \in 1..Len(errors) : errors[i].error_type = key }

\* C14: a classify_errors call started after a definition was registered
\* in the taxonomy detects the matches of that definition's patterns: the
\* table was recompiled before the definition became visible to the call.
C14_NewCallsDetectRegistered ==
    Classified /\ IsRegistered(taxonomy, RegisteredType.key) =>
        LET recompiled == _compile_patterns(taxonomy)
            matches == _detect_pattern_based_errors(recompiled, input)
        IN  OfType(matches, RegisteredType.key) # {} =>
                OfType(result.detected_errors, RegisteredType.key) # {}

\* The pattern raises re.error, decided on its source text alone
Malformed(pattern) == re_error(StripFlag(pattern))

WellFormed(pattern) == ~ Malformed(pattern)

\* The taxonomy with its malformed patterns taken out
WithoutMalformed(tax) ==
    LET types == tax.error_types
        clean(et) == [et EXCEPT !.patterns = SelectSeq(@, WellFormed)]
    IN  [ tax EXCEPT !.error_types =
            SubSeq([i \in 1..Len(types) |-> clean(types[i])], 1, Len(types)) ]

\* The table holds the pattern under the category of its error type
InTable(table, et, pattern) ==
    \E r \in 1..Len(table) :
        /\ table[r].category = et.category
        /\ \E k \in 1..Len(table[r].patterns) :
              /\ table[r].patterns[k].error_type = et.key
              /\ table[r].patterns[k].pattern = re_compile(pattern).alts

\* The patterns the log warns about
Warned == { << warnings[i].error_type, warnings[i].pattern >> :
            i \in 1..Len(warnings) }

\* C15: a classifier constructed over a taxonomy with malformed patterns
\* has a table: every well-formed pattern is in it under the category of
\* its definition, the table is the one compiled from the taxonomy without
\* the malformed patterns, and the log holds one warning for each
\* malformed pattern and for nothing else.
C15_MalformedPatternsAreSkipped ==
    pc = "idle" =>
        /\ \A i \in 1..Len(taxonomy.error_types) :
              LET et == taxonomy.error_types[i]
              IN  \A j \in 1..Len(et.patterns) :
                      /\ WellFormed(et.patterns[j]) =>
                            InTable(compiled_patterns, et, et.patterns[j])
                      /\ Malformed(et.patterns[j]) <=>
                            << et.name, et.patterns[j] >> \in Warned
        /\ compiled_patterns = _compile_patterns(WithoutMalformed(taxonomy))
        /\ Len(warnings) = Cardinality(Warned)

BrokenType(tax) ==
    { i \in 1..Len(tax.error_types) :
        \E j \in 1..Len(tax.error_types[i].patterns) :
            Malformed(tax.error_types[i].patterns[j]) }

C15_Witness ==
    /\ Classified
    /\ \E i \in BrokenType(taxonomy) :
          /\ Malformed(taxonomy.error_types[i].patterns[1])
          /\ OfType(result.detected_errors, taxonomy.error_types[i].key) # {}

Searched == pc = "returned" /\ call = "search_error_types"

\* (a) a keyword of the definition, lowercased, is in the lowercased query
KeywordInQuery(et, query) ==
    \E k \in 1..Len(et.keywords) :
        Contains(lower(query), lower(et.keywords[k]))

\* (b) the lowercased query is in the lowercased description
QueryInDescription(et, query) ==
    Contains(lower(et.description), lower(query))

\* (c) a pattern of the definition matches the query, case-insensitively
PatternMatchesQuery(et, query) ==
    \E j \in 1..Len(et.patterns) :
        /\ WellFormed(et.patterns[j])
        /\ re_search(et.patterns[j], query)

\* The keys of the definitions one of (a), (b), (c) holds for, in
\* registration order
MatchingDefinitions(tax, query) ==
    LET Holds(et) == \/ KeywordInQuery(et, query)
                     \/ QueryInDescription(et, query)
                     \/ PatternMatchesQuery(et, query)
        defs == SelectSeq(tax.error_types, Holds)
    IN  SubSeq([i \in 1..Len(defs) |-> defs[i].key], 1, Len(defs))

\* C16: search_error_types(query) returns, in registration order and each
\* once, exactly the definitions of which a keyword is in the query, or
\* whose description holds the query, or one of whose patterns matches it.
C16_SearchReturnsMatchingDefinitions ==
    Searched =>
        /\ result.raised = "None"
        /\ result.value = MatchingDefinitions(taxonomy, input)

\* The same on a taxonomy all of whose patterns compile
SearchOfWellFormedTaxonomy ==
    Searched /\ BrokenType(taxonomy) = {} =>
        /\ result.raised = "None"
        /\ result.value = MatchingDefinitions(taxonomy, input)

\* The taxonomy holds the catalog built at initialization, unchanged
FixedCatalog == taxonomy.error_types = _initialize_error_types

\* The result of the search holds the definition of that name
Found(name) ==
    \E i \in 1..Len(result.value) :
        ErrorTypeOf(taxonomy, result.value[i]).name = name

\* C17: on the fixed catalog search_error_types("incorrect") holds the
\* definition "Factual Incorrectness", and search_error_types("inc") does
\* not: no keyword of the definition is in "inc", its description does not
\* hold "inc" and its pattern does not match "inc".
C17_SearchAsymmetry ==
    Searched /\ FixedCatalog =>
        /\ input = <<"i", "n", "c", "o", "r", "r", "e", "c", "t">> =>
              result.raised = "None" /\ Found("Factual Incorrectness")
        /\ input = <<"i", "n", "c">> =>
              /\ result.raised = "None"
              /\ ~ Found("Factual Incorrectness")
              /\ ~ KeywordInQuery(ET_factual_incorrect, input)
              /\ ~ QueryInDescription(ET_factual_incorrect, input)
              /\ ~ PatternMatchesQuery(ET_factual_incorrect, input)

C17_Witness ==
    /\ Searched
    /\ FixedCatalog
    /\ input = <<"i", "n", "c">>
    /\ result.value # << >>
    /\ \E k \in 1..Len(ET_factual_incorrect.keywords) :
          Contains(ET_factual_incorrect.keywords[k], input)

\* Effective severity: the override if present, otherwise the default of
\* the error's type
EffectiveSeverity(e) ==
    IF e.severity_override = "None"
    THEN ErrorTypeOf(taxonomy, e.error_type).severity_default
    ELSE e.severity_override

AnyCritical(errors) ==
    \E i \in 1..Len(errors) : EffectiveSeverity(errors[i]) = "critical"

\* C18: has_critical_errors of a result is true exactly when one of its
\* detected errors has effective severity critical, and the result of
\* classifying the second test response holds a hallucination error of
\* effective severity critical and has has_critical_errors true.
C18_HasCriticalIffEffectiveCritical ==
    /\ pc = "returned" /\ call = "has_critical_errors" =>
          (result <=> AnyCritical(input.detected_errors))
    /\ Classified =>
          (has_critical_errors(taxonomy, result)
              <=> AnyCritical(result.detected_errors))
    /\ Classified /\ input = ExampleFabricated =>
          /\ \E i \in 1..Len(result.detected_errors) :
                /\ CategoryOf(result.detected_errors[i]) = "hallucination"
                /\ EffectiveSeverity(result.detected_errors[i]) = "critical"
          /\ has_critical_errors(taxonomy, result)

C18_Witness ==
    /\ pc = "returned"
    /\ call = "has_critical_errors"
    /\ result = FALSE
    /\ \E i \in 1..Len(input.detected_errors) :
          LET e == input.detected_errors[i]
          IN  /\ e.severity_override # "None"
              /\ ErrorTypeOf(taxonomy, e.error_type).severity_default = "critical"

\* C19: in the catalog built at initialization every category of
\* get_all_categories() has a definition: get_error_types_by_category
\* returns a non-empty list for it.
C19_EveryCategoryHasDefinitions ==
    pc = "returned" /\ call = "get_error_types_by_category" /\ FixedCatalog =>
        result # << >>

\* The least and the greatest confidence of a non-empty list of errors
LeastConfidence(errors) == Least({ errors[i].confidence : i \in 1..Len(errors) })
GreatestConfidence(errors) == Greatest({ errors[i].confidence : i \in 1..Len(errors) })

\* lo <= score <= hi, for a score n / d and bounds in units of 0.01
Within(score, lo, hi) ==
    lo * score.d <= score.n /\ score.n <= hi * score.d

\* The overall score of the errors and their confidence score lie between
\* the least and the greatest confidence of the errors
BetweenConfidences(res) ==
    LET lo == LeastConfidence(res.detected_errors)
        hi == GreatestConfidence(res.detected_errors)
    IN  /\ Within(res.overall_error_score, lo, hi)
        /\ Within(res.confidence_score, lo, hi)

\* C20 as stated: every confidence of a classify_errors result is at
\* least 0.6, and a result with detected errors has an overall error score
\* and a confidence score of at least 0.6, both between the least and the
\* greatest confidence of its errors.
C20_NonEmptyScoresAtLeastBase ==
    Classified /\ result.detected_errors # << >> =>
        /\ \A i \in 1..Len(result.detected_errors) :
              result.detected_errors[i].confidence >= BaseConfidence
        /\ Within(result.overall_error_score, BaseConfidence, MaxConfidence)
        /\ Within(result.confidence_score, BaseConfidence, MaxConfidence)
        /\ BetweenConfidences(result)

\* overall is the overall score of the errors under the amended C20
IsBoundedOverallScore(overall, errors) ==
    IF Total(errors, OverallWeight, 1) > 0
    THEN Within(overall, LeastConfidence(errors), GreatestConfidence(errors))
    ELSE overall.n = 0

\* C20 (amended): every confidence of a classify_errors result is at least
\* 0.6. When the result has detected errors, its confidence score lies
\* between their least and greatest confidence, and its overall error score
\* does too when the total weight (category weight x severity multiplier,
\* no weight negative) of the errors is positive and is 0.0 when that total
\* is zero: the overall score is 0.0 or at least 0.6. The same bound holds
\* of _calculate_overall_error_score for every list of errors, however many
\* errors it holds.
C20_ScoresBoundedByConfidences ==
    /\ Classified /\ result.detected_errors # << >> =>
          /\ \A i \in 1..Len(result.detected_errors) :
                result.detected_errors[i].confidence >= BaseConfidence
          /\ Within(result.confidence_score,
                    LeastConfidence(result.detected_errors),
                    GreatestConfidence(result.detected_errors))
          /\ Within(result.confidence_score, BaseConfidence, MaxConfidence)
          /\ IsBoundedOverallScore(result.overall_error_score,
                                   result.detected_errors)
          /\ \/ result.overall_error_score.n = 0
             \/ Within(result.overall_error_score, BaseConfidence, MaxConfidence)
    /\ pc = "returned" /\ call = "_calculate_overall_error_score"
          /\ input # << >> =>
          IsBoundedOverallScore(result, input)

\* Errors of two confidences and of two weights, none of them zero: the
\* overall score lies strictly between the two confidences
C20_Witness ==
    /\ Classified
    /\ Len(result.detected_errors) >= 2
    /\ LeastConfidence(result.detected_errors) < GreatestConfidence(result.detected_errors)
    /\ Total(result.detected_errors, OverallWeight, 1) > 0
    /\ ~ Within(result.overall_error_score,
                GreatestConfidence(result.detected_errors),
                GreatestConfidence(result.detected_errors))
    /\ ~ Within(result.overall_error_score,
                LeastConfidence(result.detected_errors),
                LeastConfidence(result.detected_errors))

\* The number of places of text where the keyword kw begins.
Occurrences(text, kw) ==
    Cardinality({ i \in 0..(Len(text) - Len(kw)) :
                    \A j \in 1..Len(kw) : text[i + j] = kw[j] })

\* text[max(0, start - 100) : min(len(text), end + 100)] of a detected
\* error, as the bounds of the slice.
WindowFrom(error) == Max(0, error.location[1] - ContextRadius)
WindowTo(text, error) == Min(Len(text), error.location[2] + ContextRadius)
Window(text, error) ==
    lower(SubSeq(text, WindowFrom(error) + 1, WindowTo(text, error)))

\* The window's text before the match and its text after the match.
BeforeMatch(text, error) ==
    lower(SubSeq(text, WindowFrom(error) + 1, error.location[1]))
AfterMatch(text, error) ==
    lower(SubSeq(text, error.location[2] + 1, WindowTo(text, error)))

HoldsKeyword(text) == \E kw \in Range(error_keywords) : Contains(text, kw)

BeginsWith(text, word) ==
    Len(text) >= Len(word) /\ SubSeq(text, 1, Len(word)) = word

\* incorrect, wrong, false, inaccurate
FactualOpeners ==
    { error_keywords[2], error_keywords[1], error_keywords[5], error_keywords[6] }

\* C21: the context window of the keyword bonus is the contiguous slice
\* text[max(0, start-100) : min(len(text), end+100)], which includes the
\* matched text: a match whose own text holds one of the six context
\* keywords (any "Factual Incorrectness" match that begins with incorrect,
\* wrong, false or inaccurate, for one) gets a context bonus of at least
\* 0.05, even when no keyword occurs outside the match; and a keyword
\* counts once however often it occurs in the window.
C21_WindowIncludesMatch ==
    Classified =>
        \A e \in Range(result.detected_errors) :
            LET window == Window(input, e)
                own == lower(e.evidence)
                counted == { kw \in Range(error_keywords) :
                               Occurrences(window, kw) >= 1 }
            IN  /\ window = BeforeMatch(input, e) \o own \o AfterMatch(input, e)
                /\ ContextBonusOf(e)
                      = Min(MaxContextBonus, KeywordBonus * Cardinality(counted))
                /\ HoldsKeyword(own) => ContextBonusOf(e) >= KeywordBonus
                /\ (/\ ErrorTypeOf(taxonomy, e.error_type).name
                          = "Factual Incorrectness"
                    /\ \E w \in FactualOpeners : BeginsWith(own, w))
                      => ContextBonusOf(e) >= KeywordBonus

\* A match that holds context keywords, one of them twice, in a text with
\* no keyword outside the match: each keyword counted once, the bonus is
\* below its cap and below 0.05 per occurrence.
C21_Witness ==
    /\ Classified
    /\ \E e \in Range(result.detected_errors) :
          /\ HoldsKeyword(lower(e.evidence))
          /\ ~ HoldsKeyword(BeforeMatch(input, e))
          /\ ~ HoldsKeyword(AfterMatch(input, e))
          /\ \E kw \in Range(error_keywords) :
                Occurrences(Window(input, e), kw) >= 2
          /\ ContextBonusOf(e) >= KeywordBonus
          /\ ContextBonusOf(e) < MaxContextBonus

\* The errors of a list that belong to category c.
InCategory(errors, c) == { i \in 1..Len(errors) : CategoryOf(errors[i]) = c }

\* The sum of the values of a dict of counts.
SumOfCounts(counts) ==
    SumSeq([i \in 1..Len(get_all_categories) |->
               IF get_all_categories[i] \in DOMAIN counts
               THEN counts[get_all_categories[i]] ELSE 0], 1)

\* The counts and the category scores of a result agree with its list of
\* errors.
ViewsAgree(res, counts) ==
    /\ DOMAIN counts \subseteq AllCategoryNames
    /\ SumOfCounts(counts) = Len(res.detected_errors)
    /\ \A c \in AllCategoryNames :
          /\ c \in DOMAIN counts <=> InCategory(res.detected_errors, c) # {}
          /\ c \in DOMAIN counts =>
                counts[c] = Cardinality(InCategory(res.detected_errors, c))
          /\ res.category_scores[c].n > 0
                <=> InCategory(res.detected_errors, c) # {}

\* C22: in every classify_errors result the derived views agree with the
\* list of errors: the counts of error_count_by_category sum to
\* len(detected_errors), a category is a key of error_count_by_category
\* iff a detected error belongs to it, and category_scores[c] > 0 iff a
\* detected error belongs to category c.
C22_DerivedViewsAgree ==
    /\ Classified =>
          ViewsAgree(result, error_count_by_category(taxonomy, result))
    /\ (pc = "returned" /\ call = "error_count_by_category") =>
          ViewsAgree(input, result)

\* The counts of a result with two errors of one category and one error of
\* another: two keys, the counts 2 and 1, and eight categories at 0.0.
C22_Witness ==
    /\ pc = "returned" /\ call = "error_count_by_category"
    /\ Len(input.detected_errors) = 3
    /\ Cardinality(DOMAIN result) = 2
    /\ \E c \in DOMAIN result : result[c] = 2
    /\ \E c \in DOMAIN result : result[c] = 1
    /\ Cardinality({ c \in AllCategoryNames :
                       input.category_scores[c].n = 0 }) = 8

===========================================================================
